---- MODULE Spec2Model ----
(***************************************************************************)
(* CipherVault+ : the two-layer cipher (crypto.py), the vault record store *)
(* (vault.py) and the audit ledger (audit.py), as a state machine.         *)
(*                                                                         *)
(* A Python str is a sequence of code points (0..255: ASCII and Latin-1),  *)
(* a bytes object a sequence of 0..255.  A file is the sequence of the     *)
(* characters written to it, newlines included.                            *)
(***************************************************************************)
EXTENDS Integers, Sequences, FiniteSets, TLC

VARIABLES
    vaultFile,     \* data/vault.txt: the characters of the file
    auditFile,     \* data/audit_log.txt: the characters of the file
    clock,         \* datetime.now(), in seconds after 2025-10-28 10:30:00
    vaultIo,       \* what open/write on vault.txt do now: one of SaveOutcomes
    auditIo,       \* whether open/write on audit_log.txt succeed now
    steps,         \* menu choices handled and environment events so far
    lastOp,        \* the dashboard call that returned last: inputs read, result
    prevVault,     \* vaultFile when that call began
    prevAudit,     \* auditFile when that call began
    plain,         \* crypto: the plain_password last handed to encrypt_password
    master,        \* crypto: the master_password it was encrypted under
    cipher,        \* crypto: what encrypt_password returned
    decrypted,     \* crypto: what decrypt_password returned for cipher
    cryptoPc,      \* crypto: "idle", "encrypted" or "decrypted"
    call,          \* a function called on its own: its name and arguments
    result,        \* what that call returned
    procs,         \* two processes on one vault.txt: each one's call and position
    session        \* main.py: the login and the dashboard of one run

vars == <<vaultFile, auditFile, clock, vaultIo, auditIo, steps, lastOp,
          prevVault, prevAudit, plain, master, cipher, decrypted, cryptoPc,
          call, result, procs, session>>

vaultVars == <<vaultFile, auditFile, clock, vaultIo, auditIo, steps, lastOp,
               prevVault, prevAudit, procs, session>>
cryptoVars == <<plain, master, cipher, decrypted, cryptoPc>>
callVars == <<call, result>>

---------------------------------------------------------------------------
(* Characters *)

NL == 10          \* "\n"
CR == 13          \* "\r"
PIPE == 124       \* "|"
SPACE == 32       \* " "
PAD == 61         \* "="

\* str.isupper / str.islower / str.isalpha of one character below 256
IsUpper(c) == (c >= 65 /\ c <= 90) \/ (c >= 192 /\ c <= 222 /\ c # 215)
IsAsciiLetter(c) == (c >= 65 /\ c <= 90) \/ (c >= 97 /\ c <= 122)
IsAlpha(c) ==
    \/ IsAsciiLetter(c)
    \/ c \in {170, 181, 186}
    \/ (c >= 192 /\ c <= 255 /\ c \notin {215, 247})

\* str.isspace of one character below 256: what str.strip() removes
IsSpace(c) == c \in {9, 10, 11, 12, 13, 28, 29, 30, 31, 32, 133, 160}

\* str.lower(), character by character
LowerChar(c) == IF IsUpper(c) THEN c + 32 ELSE c
lower(s) == [i \in 1..Len(s) |-> LowerChar(s[i])]

\* str.lstrip(), str.rstrip(), str.strip()
RECURSIVE lstrip(_)
lstrip(s) == IF s # <<>> /\ IsSpace(Head(s)) THEN lstrip(Tail(s)) ELSE s

RECURSIVE rstrip(_)
rstrip(s) ==
    IF s # <<>> /\ IsSpace(s[Len(s)]) THEN rstrip(SubSeq(s, 1, Len(s) - 1)) ELSE s

strip(s) == rstrip(lstrip(s))

\* str.replace(ch, by) for a one-character ch
RECURSIVE replace(_, _, _)
replace(s, ch, by) ==
    IF s = <<>> THEN <<>>
    ELSE (IF Head(s) = ch THEN by ELSE <<Head(s)>>) \o replace(Tail(s), ch, by)

\* str.split(sep) for a one-character sep: always at least one part
split(s, sep) ==
    LET cuts == {i \in 1..Len(s) : s[i] = sep}
        n == Cardinality(cuts)
        \* position of the k-th separator; 0 before the first, Len+1 after the last
        cut(k) == IF k = 0 THEN 0
                  ELSE IF k = n + 1 THEN Len(s) + 1
                  ELSE CHOOSE i \in cuts : Cardinality({j \in cuts : j < i}) = k - 1
    IN  [k \in 1..(n + 1) |-> SubSeq(s, cut(k - 1) + 1, cut(k) - 1)]

\* sub in s, for strings
Contains(s, sub) ==
    \E i \in 0..(Len(s) - Len(sub)) : \A k \in 1..Len(sub) : s[i + k] = sub[k]

---------------------------------------------------------------------------
(* crypto.py *)

caesar_encrypt_char(c, shift) ==
    IF IsAlpha(c)
    THEN LET ascii_offset == IF IsUpper(c) THEN 65 ELSE 97
         IN  ((c - ascii_offset + shift) % 26) + ascii_offset
    ELSE c

caesar_encrypt(text, shift) ==
    [i \in 1..Len(text) |-> caesar_encrypt_char(text[i], shift)]

caesar_decrypt_same_shift(text, shift) == caesar_encrypt(text, shift)

caesar_decrypt(text, shift) == caesar_encrypt(text, 0 - shift)

\* str.encode('utf-8'), code points below 256
RECURSIVE utf8_encode(_)
utf8_encode(text) ==
    IF text = <<>> THEN <<>>
    ELSE LET c == Head(text)
         IN  (IF c < 128 THEN <<c>>
              ELSE <<192 + (c \div 64), 128 + (c % 64)>>) \o utf8_encode(Tail(text))

\* bytes.decode('utf-8'): [ok |-> FALSE] is UnicodeDecodeError
RECURSIVE utf8_decode(_)
utf8_decode(bytes) ==
    IF bytes = <<>> THEN [ok |-> TRUE, text |-> <<>>]
    ELSE LET b == Head(bytes)
         IN  IF b < 128
             THEN LET rest == utf8_decode(Tail(bytes))
                  IN  [ok |-> rest.ok, text |-> <<b>> \o rest.text]
             ELSE IF b >= 194 /\ b <= 223 /\ Len(bytes) >= 2
                     /\ bytes[2] >= 128 /\ bytes[2] <= 191
             THEN LET rest == utf8_decode(Tail(Tail(bytes)))
                  IN  [ok |-> rest.ok,
                       text |-> <<(b - 192) * 64 + (bytes[2] - 128)>> \o rest.text]
             ELSE [ok |-> FALSE, text |-> <<>>]

\* the base64 alphabet: value 0..63 -> character
b64_char(v) ==
    IF v < 26 THEN 65 + v
    ELSE IF v < 52 THEN 97 + (v - 26)
    ELSE IF v < 62 THEN 48 + (v - 52)
    ELSE IF v = 62 THEN 43 ELSE 47

\* character -> value 0..63, or 64 for a character outside the alphabet
b64_value(c) ==
    IF c >= 65 /\ c <= 90 THEN c - 65
    ELSE IF c >= 97 /\ c <= 122 THEN c - 97 + 26
    ELSE IF c >= 48 /\ c <= 57 THEN c - 48 + 52
    ELSE IF c = 43 THEN 62
    ELSE IF c = 47 THEN 63 ELSE 64

\* base64.b64encode
RECURSIVE b64encode(_)
b64encode(bytes) ==
    IF bytes = <<>> THEN <<>>
    ELSE IF Len(bytes) = 1
    THEN <<b64_char(bytes[1] \div 4), b64_char((bytes[1] % 4) * 16), PAD, PAD>>
    ELSE IF Len(bytes) = 2
    THEN <<b64_char(bytes[1] \div 4),
           b64_char((bytes[1] % 4) * 16 + (bytes[2] \div 16)),
           b64_char((bytes[2] % 16) * 4), PAD>>
    ELSE <<b64_char(bytes[1] \div 4),
           b64_char((bytes[1] % 4) * 16 + (bytes[2] \div 16)),
           b64_char((bytes[2] % 16) * 4 + (bytes[3] \div 64)),
           b64_char(bytes[3] % 64)>> \o b64encode(SubSeq(bytes, 4, Len(bytes)))

\* base64.b64decode, validate=False: characters outside the alphabet are
\* skipped, decoding stops at completed padding, an incomplete last quad is
\* binascii.Error ([ok |-> FALSE])
RECURSIVE b64decode_from(_, _, _, _, _)
b64decode_from(ascii, quad_pos, leftchar, pads, out) ==
    IF ascii = <<>>
    THEN [ok |-> quad_pos = 0, bytes |-> out]
    ELSE LET c == Head(ascii)
             v == b64_value(c)
         IN  IF c = PAD
             THEN IF quad_pos >= 2 /\ quad_pos + pads + 1 >= 4
                  THEN [ok |-> TRUE, bytes |-> out]
                  ELSE b64decode_from(Tail(ascii), quad_pos, leftchar,
                                      IF quad_pos >= 2 THEN pads + 1 ELSE pads, out)
             ELSE IF v = 64
             THEN b64decode_from(Tail(ascii), quad_pos, leftchar, pads, out)
             ELSE IF quad_pos = 0
             THEN b64decode_from(Tail(ascii), 1, v, 0, out)
             ELSE IF quad_pos = 1
             THEN b64decode_from(Tail(ascii), 2, v % 16, 0,
                                 Append(out, leftchar * 4 + (v \div 16)))
             ELSE IF quad_pos = 2
             THEN b64decode_from(Tail(ascii), 3, v % 4, 0,
                                 Append(out, leftchar * 16 + (v \div 4)))
             ELSE b64decode_from(Tail(ascii), 0, 0, 0,
                                 Append(out, leftchar * 64 + v))

b64decode(ascii) == b64decode_from(ascii, 0, 0, 0, <<>>)

base64_encode(text) == b64encode(utf8_encode(text))

\* the except branch returns ""
base64_decode(encoded_text) ==
    LET decoded_bytes == b64decode(encoded_text)
    IN  IF ~decoded_bytes.ok THEN <<>>
        ELSE LET decoded == utf8_decode(decoded_bytes.bytes)
             IN  IF decoded.ok THEN decoded.text ELSE <<>>

RECURSIVE sum(_)
sum(s) == IF s = <<>> THEN 0 ELSE Head(s) + sum(Tail(s))

derive_key_from_password_by_length(master_password) == Len(master_password) % 26

derive_key_from_password(master_password) == sum(master_password) % 26

encrypt_password_skipped(plain_password, master_password) == plain_password

encrypt_password(plain_password, master_password) ==
    LET shift == derive_key_from_password(master_password)
        caesar_encrypted == caesar_encrypt(plain_password, shift)
    IN  base64_encode(caesar_encrypted)

decrypt_password(encrypted_password, master_password) ==
    LET shift == derive_key_from_password(master_password)
        base64_decoded == base64_decode(encrypted_password)
    IN  IF base64_decoded = <<>> THEN <<>>
        ELSE caesar_decrypt(base64_decoded, shift)

\* the four pools of generate_strong_password: string.ascii_lowercase,
\* string.ascii_uppercase, string.digits and "!@#$%^&*"
ascii_lowercase == 97..122
ascii_uppercase == 65..90
string_digits == 48..57
special == {33, 64, 35, 36, 37, 94, 38, 42}

\* the test a generated password must pass: one character of each pool (on
\* characters of the pools, islower, isupper and isdigit are membership)
is_strong(password) ==
    /\ \E i \in 1..Len(password) : password[i] \in ascii_lowercase
    /\ \E i \in 1..Len(password) : password[i] \in ascii_uppercase
    /\ \E i \in 1..Len(password) : password[i] \in string_digits
    /\ \E i \in 1..Len(password) : password[i] \in special

---------------------------------------------------------------------------
(* utils.py *)

RECURSIVE decimal(_)
decimal(n) == IF n < 10 THEN <<48 + n>> ELSE decimal(n \div 10) \o <<48 + (n % 10)>>

\* format(n, "0<width>d")
RECURSIVE zero_pad(_, _)
zero_pad(digits, width) ==
    IF Len(digits) >= width THEN digits ELSE zero_pad(<<48>> \o digits, width)

Range(s) == {s[i] : i \in 1..Len(s)}

VAULT == <<86, 65, 85, 76, 84>>     \* "VAULT"

entry_id_of(current) == VAULT \o zero_pad(decimal(current), 3)

generate_entry_id_after_count(existing_ids, current) ==
    entry_id_of(Len(existing_ids) + current)

generate_entry_id_unchecked(existing_ids, current) == entry_id_of(current)

RECURSIVE generate_entry_id(_, _)
generate_entry_id(existing_ids, current) ==
    LET new_id == entry_id_of(current)
    IN  IF new_id \notin Range(existing_ids) THEN new_id
        ELSE generate_entry_id(existing_ids, current + 1)

\* the calls of generate_entry_id one call from outside makes, itself included
RECURSIVE generate_entry_id_probes(_, _)
generate_entry_id_probes(existing_ids, current) ==
    IF entry_id_of(current) \notin Range(existing_ids) THEN 1
    ELSE 1 + generate_entry_id_probes(existing_ids, current + 1)

sanitize_input_stripping_only(text) == strip(text)

sanitize_input(text) ==
    strip(replace(replace(replace(text, PIPE, <<>>), NL, <<SPACE>>), CR, <<>>))

\* strftime("%Y-%m-%d %H:%M:%S") of the clock: "2025-10-28 10:30:SS"
format_timestamp(now) ==
    <<50, 48, 50, 53, 45, 49, 48, 45, 50, 56, 32, 49, 48, 58, 51, 48, 58>>
        \o zero_pad(decimal(now), 2)

---------------------------------------------------------------------------
(* Files *)

\* "for line in f" on a text-mode file: a line ends after "\n"; a lone "\r"
\* and "\r\n" end a line too (universal newlines).  Each line is given with its
\* terminator as stored; every reader strips it.
file_lines(f) ==
    LET ends == {i \in 1..Len(f) :
                    \/ f[i] = NL
                    \/ (f[i] = CR /\ ~(i < Len(f) /\ f[i + 1] = NL))}
        n == Cardinality(ends)
        end(k) == IF k = 0 THEN 0
                  ELSE IF k = n + 1 THEN Len(f)
                  ELSE CHOOSE i \in ends : Cardinality({j \in ends : j < i}) = k - 1
        count == IF n = 0 THEN (IF Len(f) = 0 THEN 0 ELSE 1)
                 ELSE IF end(n) = Len(f) THEN n ELSE n + 1
    IN  [k \in 1..count |-> SubSeq(f, end(k - 1) + 1, end(k))]

---------------------------------------------------------------------------
(* audit.py *)

log_activity_rewriting(file, now, username, action, details, io_ok) ==
    LET log_entry == format_timestamp(now) \o <<PIPE>> \o sanitize_input(username)
                       \o <<PIPE>> \o sanitize_input(action)
                       \o <<PIPE>> \o sanitize_input(details) \o <<NL>>
    IN  IF io_ok THEN log_entry ELSE file

\* what a call of log_activity leaves in the ledger: the line appended, or the
\* file as it was when open/write raised (the except branch, which returns False)
log_activity(file, now, username, action, details, io_ok) ==
    LET log_entry == format_timestamp(now) \o <<PIPE>> \o sanitize_input(username)
                       \o <<PIPE>> \o sanitize_input(action)
                       \o <<PIPE>> \o sanitize_input(details) \o <<NL>>
    IN  IF io_ok THEN file \o log_entry ELSE file

log_activity_uncaught(io_ok) == ~io_ok

\* whether an exception leaves log_activity: open and write are inside its
\* try, and "except Exception" returns False
log_activity_raises(io_ok) == FALSE

\* what a handler returns once its log_* call is over
returned_after_log(io_ok) == IF log_activity_raises(io_ok) THEN "Raised" ELSE "True"

CREATE == <<67, 82, 69, 65, 84, 69>>
READ == <<82, 69, 65, 68>>
UPDATE == <<85, 80, 68, 65, 84, 69>>
DELETE == <<68, 69, 76, 69, 84, 69>>
SEARCH == <<83, 69, 65, 82, 67, 72>>

\* "Created entry: ", "Viewed entry: ", "Updated entry: ", "Deleted entry: ",
\* "Searched for: "
CreatedEntry == <<67, 114, 101, 97, 116, 101, 100, 32, 101, 110, 116, 114, 121, 58, 32>>
ViewedEntry == <<86, 105, 101, 119, 101, 100, 32, 101, 110, 116, 114, 121, 58, 32>>
UpdatedEntry == <<85, 112, 100, 97, 116, 101, 100, 32, 101, 110, 116, 114, 121, 58, 32>>
DeletedEntry == <<68, 101, 108, 101, 116, 101, 100, 32, 101, 110, 116, 114, 121, 58, 32>>
SearchedFor == <<83, 101, 97, 114, 99, 104, 101, 100, 32, 102, 111, 114, 58, 32>>

log_create_entry(file, now, username, entry_title, io_ok) ==
    log_activity(file, now, username, CREATE, CreatedEntry \o entry_title, io_ok)

log_read_entry(file, now, username, entry_title, io_ok) ==
    log_activity(file, now, username, READ, ViewedEntry \o entry_title, io_ok)

log_update_entry(file, now, username, entry_title, io_ok) ==
    log_activity(file, now, username, UPDATE, UpdatedEntry \o entry_title, io_ok)

log_delete_entry(file, now, username, entry_title, io_ok) ==
    log_activity(file, now, username, DELETE, DeletedEntry \o entry_title, io_ok)

log_search(file, now, username, keyword, io_ok) ==
    log_activity(file, now, username, SEARCH, SearchedFor \o keyword, io_ok)

parse_log_line_unstripped(line) ==
    LET parts == split(line, PIPE)
    IN  IF Len(parts) >= 4
        THEN <<[timestamp |-> parts[1], username |-> parts[2],
                action |-> parts[3], details |-> parts[4]]>>
        ELSE IF Len(parts) = 3
        THEN <<[timestamp |-> parts[1], username |-> parts[2],
                action |-> parts[3], details |-> <<>>]>>
        ELSE <<>>

\* None is <<>>, a record is <<record>>
parse_log_line(line) ==
    LET parts == split(strip(line), PIPE)
    IN  IF Len(parts) >= 4
        THEN <<[timestamp |-> parts[1], username |-> parts[2],
                action |-> parts[3], details |-> parts[4]]>>
        ELSE IF Len(parts) = 3
        THEN <<[timestamp |-> parts[1], username |-> parts[2],
                action |-> parts[3], details |-> <<>>]>>
        ELSE <<>>

RECURSIVE parse_log_lines(_)
parse_log_lines(lines) ==
    IF lines = <<>> THEN <<>>
    ELSE parse_log_line(Head(lines)) \o parse_log_lines(Tail(lines))

read_all_logs(file) == parse_log_lines(file_lines(file))

\* seq[start:] of a list: a negative start counts from the end, and a start
\* outside the list is the nearer end
slice_from(seq, start) ==
    LET n == Len(seq)
        from == IF start < 0 THEN (IF start + n < 0 THEN 0 ELSE start + n)
                ELSE IF start > n THEN n ELSE start
    IN  SubSeq(seq, from + 1, n)

\* all_logs[-count:] if len(all_logs) > count else all_logs
get_recent_logs(file, count) ==
    LET all_logs == read_all_logs(file)
    IN  IF Len(all_logs) > count THEN slice_from(all_logs, 0 - count) ELSE all_logs

---------------------------------------------------------------------------
(* vault.py: records *)

\* None is <<>>, an entry is <<entry>>
parse_vault_line(line) ==
    LET parts == split(strip(line), PIPE)
    IN  IF Len(parts) = 7
        THEN <<[id |-> parts[1], username |-> parts[2], title |-> parts[3],
                account |-> parts[4], password |-> parts[5], notes |-> parts[6],
                created_at |-> parts[7]]>>
        ELSE <<>>

format_vault_line_unterminated(entry) ==
    entry.id \o <<PIPE>> \o entry.username \o <<PIPE>> \o entry.title \o <<PIPE>>
        \o entry.account \o <<PIPE>> \o entry.password \o <<PIPE>> \o entry.notes
        \o <<PIPE>> \o entry.created_at

format_vault_line(entry) ==
    entry.id \o <<PIPE>> \o entry.username \o <<PIPE>> \o entry.title \o <<PIPE>>
        \o entry.account \o <<PIPE>> \o entry.password \o <<PIPE>> \o entry.notes
        \o <<PIPE>> \o entry.created_at \o <<NL>>

RECURSIVE parse_vault_lines_until_invalid(_)
parse_vault_lines_until_invalid(lines) ==
    IF lines = <<>> \/ parse_vault_line(Head(lines)) = <<>> THEN <<>>
    ELSE parse_vault_line(Head(lines)) \o parse_vault_lines_until_invalid(Tail(lines))

RECURSIVE parse_vault_lines(_)
parse_vault_lines(lines) ==
    IF lines = <<>> THEN <<>>
    ELSE parse_vault_line(Head(lines)) \o parse_vault_lines(Tail(lines))

read_all_entries(file) == parse_vault_lines(file_lines(file))

\* read_all_entries when vault.txt may not be there: open raises
\* FileNotFoundError and the except branch leaves the list empty
read_all_entries_at(exists, file) ==
    IF ~exists THEN <<>> ELSE read_all_entries(file)

get_user_entries_exact_case(file, username) ==
    LET all_entries == read_all_entries(file)
        mine(entry) == entry.username = username
    IN  SelectSeq(all_entries, mine)

get_user_entries(file, username) ==
    LET all_entries == read_all_entries(file)
        mine(entry) == lower(entry.username) = lower(username)
    IN  SelectSeq(all_entries, mine)

\* None is <<>>, an entry is <<entry>>: the first entry with that id
get_entry_by_id(file, entry_id) ==
    LET all_entries == read_all_entries(file)
        hits == {i \in 1..Len(all_entries) : all_entries[i].id = entry_id}
    IN  IF hits = {} THEN <<>>
        ELSE <<all_entries[CHOOSE i \in hits : \A j \in hits : i <= j]>>

get_existing_ids(file) ==
    LET entries == read_all_entries(file)
    IN  [i \in 1..Len(entries) |-> entries[i].id]

RECURSIVE format_vault_lines(_)
format_vault_lines(entries) ==
    IF entries = <<>> THEN <<>>
    ELSE format_vault_line(Head(entries)) \o format_vault_lines(Tail(entries))

\* a save that would add the last entry of the list to the file as it is
save_all_entries_appending(file, entries, io) ==
    IF io # "ok" \/ entries = <<>> THEN file
    ELSE file \o format_vault_line(entries[Len(entries)])

\* The file a call of save_all_entries leaves.  io = "ok": every line written,
\* True returned.  Otherwise the except branch returns False: "open_failed"
\* leaves the file as it was, "write_failed" leaves the file truncated by
\* open(..., 'w') with nothing flushed.
save_all_entries(file, entries, io) ==
    IF io = "ok" THEN format_vault_lines(entries)
    ELSE IF io = "open_failed" THEN file
    ELSE <<>>

SaveOutcomes == {"ok", "open_failed", "write_failed"}

save_result_always_true(io) == TRUE

\* what save_all_entries returns: True, or False from the except branch
save_result(io) == io = "ok"

---------------------------------------------------------------------------
(* Bounds and the inputs typed at the prompts *)

MaxSteps == 3        \* menu choices and environment events in one run
MaxClock == 1        \* seconds the clock may advance
MaxSecretLen == 2    \* crypto: length of the secrets encrypted

\* "bob", "Bob" (the same account, typed differently at login) and "eve"
Usernames == {<<98, 111, 98>>, <<66, 111, 98>>, <<101, 118, 101>>}

\* "Passw0rd"
Passphrases == {<<80, 97, 115, 115, 119, 48, 114, 100>>}

Typed(title, account, password, notes) ==
    [title |-> title, account |-> account, password |-> password, notes |-> notes]

\* what is typed at the four prompts of create_entry:
\* "|" (no title is left), "G","x"," " (no password is left), "G","x","pZ",""
\* and " f|","","k7","n"
CreateInputs ==
    {Typed(<<124>>, <<>>, <<>>, <<>>),
     Typed(<<71>>, <<120>>, <<32>>, <<>>),
     Typed(<<71>>, <<120>>, <<112, 90>>, <<>>),
     Typed(<<32, 102, 124>>, <<>>, <<107, 55>>, <<110>>)}

\* what is typed at the four prompts of update_entry (empty: keep the field):
\* a new title " f|" and a new password "k7"; a new account "y" and notes "n"
UpdateInputs ==
    {Typed(<<32, 102, 124>>, <<>>, <<107, 55>>, <<>>),
     Typed(<<>>, <<121>>, <<>>, <<110>>)}

\* "", "g"
KeywordInputs == {<<>>, <<103>>}
\* the ids typed at a prompt: "VAULT001", "VAULT002"
IdInputs == {entry_id_of(1), entry_id_of(2)}
\* the answers typed before a confirmation that is then declined
DeclinedUpdate == Typed(<<>>, <<121>>, <<>>, <<110>>)
\* "n"
Skip == <<110>>

---------------------------------------------------------------------------
(* vault.py: the dashboard's handlers *)

NoOp == [kind |-> "none", username |-> <<>>, master_password |-> <<>>,
         entry_id |-> <<>>, title |-> <<>>, account |-> <<>>, password |-> <<>>,
         notes |-> <<>>, keyword |-> <<>>, confirmed |-> FALSE, show |-> FALSE,
         ret |-> "None", stage |-> "none", shown |-> <<>>, revealed |-> <<>>,
         vault_io |-> "ok", audit_io |-> TRUE]

\* a handler returns: what it read and returned, how the two files answered
\* during the call, and the files it leaves
Return(op, new_vault, new_audit) ==
    /\ lastOp' = [op EXCEPT !.vault_io = vaultIo, !.audit_io = auditIo]
    /\ prevVault' = vaultFile
    /\ prevAudit' = auditFile
    /\ vaultFile' = new_vault
    /\ auditFile' = new_audit
    /\ steps' = steps + 1
    /\ UNCHANGED <<clock, vaultIo, auditIo, procs, session>>
    /\ UNCHANGED cryptoVars
    /\ UNCHANGED callVars

is_owner_anyone(entry, username) == TRUE

\* entry['username'].lower() != username.lower() is the refusal
is_owner(entry, username) == lower(entry.username) = lower(username)

missing_never(text) == FALSE

\* "if not title", "if not password": the empty string
missing(text) == text = <<>>

new_entry(entry_id, username, title, account, encrypted_password, notes, now) ==
    [id |-> entry_id, username |-> username, title |-> title, account |-> account,
     password |-> encrypted_password, notes |-> notes,
     created_at |-> format_timestamp(now)]

\* create_entry with the answers to its four prompts drawn from inputs
create_entry_typing(username, master_password, inputs) ==
    LET op0 == [NoOp EXCEPT !.kind = "create", !.username = username,
                            !.master_password = master_password]
    IN  \E typed \in inputs :
          LET title == sanitize_input(strip(typed.title))
              account == sanitize_input(strip(typed.account))
              password == strip(typed.password)
              notes == sanitize_input(strip(typed.notes))
              op1 == [op0 EXCEPT !.title = typed.title]
              op2 == [op1 EXCEPT !.account = typed.account,
                                 !.password = typed.password]
              encrypted_password == encrypt_password(password, master_password)
              existing_ids == get_existing_ids(vaultFile)
              entry_id == generate_entry_id(existing_ids, 1)
              entry == new_entry(entry_id, username, title, account,
                                 encrypted_password, notes, clock)
              all_entries == Append(read_all_entries(vaultFile), entry)
              op3 == [op2 EXCEPT !.notes = typed.notes, !.entry_id = entry_id]
          IN  IF missing(title)
              THEN Return([op1 EXCEPT !.ret = "False", !.stage = "empty_title"],
                          vaultFile, auditFile)
              ELSE IF missing(password)
              THEN Return([op2 EXCEPT !.ret = "False", !.stage = "empty_password"],
                          vaultFile, auditFile)
              ELSE IF save_result(vaultIo)
              THEN Return([op3 EXCEPT !.ret = returned_after_log(auditIo), !.stage = "done"],
                          save_all_entries(vaultFile, all_entries, vaultIo),
                          log_create_entry(auditFile, clock, username, title, auditIo))
              ELSE Return([op3 EXCEPT !.ret = "False", !.stage = "save_failed"],
                          save_all_entries(vaultFile, all_entries, vaultIo), auditFile)

create_entry(username, master_password) ==
    create_entry_typing(username, master_password, CreateInputs)

\* view_entry_detail: where it returned, the ledger it leaves, the password shown
view_entry_detail(file, audit, now, entry_id, username, master_password, show, io_ok) ==
    LET found == get_entry_by_id(file, entry_id)
    IN  IF found = <<>>
        THEN [stage |-> "not_found", audit |-> audit, revealed |-> <<>>]
        ELSE IF ~is_owner(found[1], username)
        THEN [stage |-> "not_owner", audit |-> audit, revealed |-> <<>>]
        ELSE IF ~show
        THEN [stage |-> "detail", audit |-> audit, revealed |-> <<>>]
        ELSE LET decrypted_password == decrypt_password(found[1].password, master_password)
             IN  IF decrypted_password # <<>>
                 THEN [stage |-> "revealed",
                       audit |-> log_read_entry(audit, now, username, found[1].title, io_ok),
                       revealed |-> decrypted_password]
                 ELSE [stage |-> "decrypt_failed", audit |-> audit, revealed |-> <<>>]

view_all_entries(username, master_password) ==
    LET op0 == [NoOp EXCEPT !.kind = "view", !.username = username,
                            !.master_password = master_password]
        entries == get_user_entries(vaultFile, username)
    IN  IF entries = <<>>
        THEN Return([op0 EXCEPT !.stage = "no_entries"], vaultFile, auditFile)
        ELSE
    \E choice_in \in {Skip} \cup IdInputs :
    LET choice == strip(choice_in)
        op1 == [op0 EXCEPT !.shown = entries, !.entry_id = choice_in]
    IN  IF lower(choice) # Skip /\ choice # <<>>
        THEN \E show \in BOOLEAN :
             LET detail == view_entry_detail(vaultFile, auditFile, clock, choice,
                                             username, master_password, show, auditIo)
             IN  /\ (detail.stage \in {"not_found", "not_owner"} => ~show)
                 /\ Return([op1 EXCEPT !.show = show, !.stage = detail.stage,
                                       !.revealed = detail.revealed],
                           vaultFile, detail.audit)
        ELSE Return([op1 EXCEPT !.stage = "listed"], vaultFile, auditFile)

apply_update_unguarded(entry, new_title, new_account, new_password, new_notes, master_password) ==
    [entry EXCEPT
        !.title = IF new_title # <<>> THEN sanitize_input(new_title) ELSE @,
        !.account = sanitize_input(new_account),
        !.password = IF new_password # <<>>
                     THEN encrypt_password(new_password, master_password) ELSE @,
        !.notes = IF new_notes # <<>> THEN sanitize_input(new_notes) ELSE @]

\* the prompts of update_entry: an empty answer keeps the field
apply_update(entry, new_title, new_account, new_password, new_notes, master_password) ==
    [entry EXCEPT
        !.title = IF new_title # <<>> THEN sanitize_input(new_title) ELSE @,
        !.account = IF new_account # <<>> THEN sanitize_input(new_account) ELSE @,
        !.password = IF new_password # <<>>
                     THEN encrypt_password(new_password, master_password) ELSE @,
        !.notes = IF new_notes # <<>> THEN sanitize_input(new_notes) ELSE @]

\* all_entries[i] = entry for the first i with that id
replace_entry(all_entries, entry_id, entry) ==
    LET hits == {i \in 1..Len(all_entries) : all_entries[i].id = entry_id}
    IN  IF hits = {} THEN all_entries
        ELSE [all_entries EXCEPT ![CHOOSE i \in hits : \A j \in hits : i <= j] = entry]

remove_entry_and_after(all_entries, entry_id) ==
    LET hits == {i \in 1..Len(all_entries) : all_entries[i].id = entry_id}
    IN  IF hits = {} THEN all_entries
        ELSE SubSeq(all_entries, 1, (CHOOSE i \in hits : \A j \in hits : i <= j) - 1)

\* [e for e in all_entries if e['id'] != entry_id]
remove_entry(all_entries, entry_id) ==
    LET others(e) == e.id # entry_id
    IN  SelectSeq(all_entries, others)

\* update_entry with the answers to its four prompts drawn from inputs
update_entry_typing(username, master_password, inputs) ==
    LET op0 == [NoOp EXCEPT !.kind = "update", !.username = username,
                            !.master_password = master_password]
        entries == get_user_entries(vaultFile, username)
    IN  IF entries = <<>>
        THEN Return([op0 EXCEPT !.ret = "False", !.stage = "no_entries"],
                    vaultFile, auditFile)
        ELSE
    \E entry_id_in \in IdInputs :
    LET entry_id == strip(entry_id_in)
        found == get_entry_by_id(vaultFile, entry_id)
        op1 == [op0 EXCEPT !.entry_id = entry_id_in]
    IN  IF found = <<>>
        THEN Return([op1 EXCEPT !.ret = "False", !.stage = "not_found"],
                    vaultFile, auditFile)
        ELSE IF ~is_owner(found[1], username)
        THEN Return([op1 EXCEPT !.ret = "False", !.stage = "not_owner"],
                    vaultFile, auditFile)
        ELSE
    \E typed \in inputs, confirmed \in BOOLEAN :
    LET entry == apply_update(found[1], strip(typed.title), strip(typed.account),
                              strip(typed.password), strip(typed.notes),
                              master_password)
        op2 == [op1 EXCEPT !.title = typed.title, !.account = typed.account,
                           !.password = typed.password, !.notes = typed.notes,
                           !.confirmed = confirmed]
        all_entries == replace_entry(read_all_entries(vaultFile), entry_id, entry)
    IN  IF ~confirmed
        THEN /\ typed = DeclinedUpdate
             /\ Return([op2 EXCEPT !.ret = "False", !.stage = "declined"],
                       vaultFile, auditFile)
        ELSE IF save_result(vaultIo)
        THEN Return([op2 EXCEPT !.ret = returned_after_log(auditIo), !.stage = "done"],
                    save_all_entries(vaultFile, all_entries, vaultIo),
                    log_update_entry(auditFile, clock, username, entry.title, auditIo))
        ELSE Return([op2 EXCEPT !.ret = "False", !.stage = "save_failed"],
                    save_all_entries(vaultFile, all_entries, vaultIo), auditFile)

update_entry(username, master_password) ==
    update_entry_typing(username, master_password, UpdateInputs)

delete_entry(username) ==
    LET op0 == [NoOp EXCEPT !.kind = "delete", !.username = username]
        entries == get_user_entries(vaultFile, username)
    IN  IF entries = <<>>
        THEN Return([op0 EXCEPT !.ret = "False", !.stage = "no_entries"],
                    vaultFile, auditFile)
        ELSE
    \E entry_id_in \in IdInputs :
    LET entry_id == strip(entry_id_in)
        found == get_entry_by_id(vaultFile, entry_id)
        op1 == [op0 EXCEPT !.entry_id = entry_id_in]
    IN  IF found = <<>>
        THEN Return([op1 EXCEPT !.ret = "False", !.stage = "not_found"],
                    vaultFile, auditFile)
        ELSE IF ~is_owner(found[1], username)
        THEN Return([op1 EXCEPT !.ret = "False", !.stage = "not_owner"],
                    vaultFile, auditFile)
        ELSE
    \E confirmed \in BOOLEAN :
    LET op2 == [op1 EXCEPT !.confirmed = confirmed]
        all_entries == remove_entry(read_all_entries(vaultFile), entry_id)
    IN  IF ~confirmed
        THEN Return([op2 EXCEPT !.ret = "False", !.stage = "declined"],
                    vaultFile, auditFile)
        ELSE IF save_result(vaultIo)
        THEN Return([op2 EXCEPT !.ret = returned_after_log(auditIo), !.stage = "done"],
                    save_all_entries(vaultFile, all_entries, vaultIo),
                    log_delete_entry(auditFile, clock, username, found[1].title, auditIo))
        ELSE Return([op2 EXCEPT !.ret = "False", !.stage = "save_failed"],
                    save_all_entries(vaultFile, all_entries, vaultIo), auditFile)

search_entries_title_only(file, username, keyword) ==
    LET entries == get_user_entries(file, username)
        keyword_lower == lower(keyword)
        matches(entry) == Contains(lower(entry.title), keyword_lower)
    IN  SelectSeq(entries, matches)

search_entries(file, username, keyword) ==
    LET entries == get_user_entries(file, username)
        keyword_lower == lower(keyword)
        matches(entry) == \/ Contains(lower(entry.title), keyword_lower)
                          \/ Contains(lower(entry.account), keyword_lower)
    IN  SelectSeq(entries, matches)

search_menu(username, master_password) ==
    LET op0 == [NoOp EXCEPT !.kind = "search", !.username = username,
                            !.master_password = master_password]
    IN  \E keyword_in \in KeywordInputs :
    LET keyword == strip(keyword_in)
        op1 == [op0 EXCEPT !.keyword = keyword_in]
        results == search_entries(vaultFile, username, keyword)
        logged == log_search(auditFile, clock, username, keyword, auditIo)
        op2 == [op1 EXCEPT !.shown = results]
    IN  IF keyword = <<>>
        THEN Return([op1 EXCEPT !.stage = "empty_keyword"], vaultFile, auditFile)
        ELSE IF results = <<>>
        THEN Return([op2 EXCEPT !.stage = "no_results"], vaultFile, logged)
        ELSE
    \E choice_in \in {Skip, results[1].id} :
    LET choice == strip(choice_in)
        op3 == [op2 EXCEPT !.entry_id = choice_in]
    IN  IF lower(choice) # Skip /\ choice # <<>>
        THEN \E show \in BOOLEAN :
             LET detail == view_entry_detail(vaultFile, logged, clock, choice,
                                             username, master_password, show, auditIo)
             IN  Return([op3 EXCEPT !.show = show, !.stage = detail.stage,
                                    !.revealed = detail.revealed],
                        vaultFile, detail.audit)
        ELSE Return([op3 EXCEPT !.stage = "listed"], vaultFile, logged)

---------------------------------------------------------------------------
(* main.py: vault_dashboard, one menu choice per step *)

Create ==
    /\ steps < MaxSteps
    /\ \E username \in Usernames, master_password \in Passphrases :
          create_entry(username, master_password)

ViewAll ==
    /\ steps < MaxSteps
    /\ \E username \in Usernames, master_password \in Passphrases :
          view_all_entries(username, master_password)

Search ==
    /\ steps < MaxSteps
    /\ \E username \in Usernames, master_password \in Passphrases :
          search_menu(username, master_password)

Update ==
    /\ steps < MaxSteps
    /\ \E username \in Usernames, master_password \in Passphrases :
          update_entry(username, master_password)

Delete ==
    /\ steps < MaxSteps
    /\ \E username \in Usernames : delete_entry(username)

\* a second passes while the menu waits
Tick ==
    /\ steps < MaxSteps
    /\ clock < MaxClock
    /\ clock' = clock + 1
    /\ steps' = steps + 1
    /\ UNCHANGED <<vaultFile, auditFile, vaultIo, auditIo, lastOp, prevVault, prevAudit>>
    /\ UNCHANGED <<procs, session>>
    /\ UNCHANGED cryptoVars
    /\ UNCHANGED callVars

\* the environment: from now on vault.txt cannot be opened for writing, or
\* writes to it fail after the open truncated it
VaultFault ==
    /\ steps < MaxSteps
    /\ vaultIo = "ok"
    /\ vaultIo' \in SaveOutcomes \ {"ok"}
    /\ steps' = steps + 1
    /\ UNCHANGED <<vaultFile, auditFile, clock, auditIo, lastOp, prevVault, prevAudit>>
    /\ UNCHANGED <<procs, session>>
    /\ UNCHANGED cryptoVars
    /\ UNCHANGED callVars

\* the environment: from now on appends to audit_log.txt raise
AuditFault ==
    /\ steps < MaxSteps
    /\ auditIo
    /\ auditIo' = FALSE
    /\ steps' = steps + 1
    /\ UNCHANGED <<vaultFile, auditFile, clock, vaultIo, lastOp, prevVault, prevAudit>>
    /\ UNCHANGED <<procs, session>>
    /\ UNCHANGED cryptoVars
    /\ UNCHANGED callVars

\* hashlib.sha256(password.encode('utf-8')).hexdigest(): the digest is taken
\* as a value that tells which password it is of (no two passwords tried
\* here collide)
hash_password(password) == [sha256_of |-> utf8_encode(password)]

verify_password(plain_password, hashed_password) ==
    hash_password(plain_password) = hashed_password

\* users.txt as register left it: "bob", registered with "Passw0rd"
RegisteredUsers ==
    <<[username |-> <<98, 111, 98>>,
       password_hash |-> hash_password(<<80, 97, 115, 115, 119, 48, 114, 100>>)]>>

\* None is <<>>, a user is <<user>>: the first whose name is the same
\* ignoring case
get_user_by_username(users, username) ==
    LET hits == {i \in 1..Len(users) : lower(users[i].username) = lower(username)}
    IN  IF hits = {} THEN <<>>
        ELSE <<users[CHOOSE i \in hits : \A j \in hits : i <= j]>>

\* main.py before a login: current_session.current_user is None
NoSession ==
    [pc |-> "main_menu", users |-> RegisteredUsers, current_user |-> <<>>,
     verified |-> <<>>, master_password |-> <<>>, logins |-> 0, entered_at |-> 0]

Init ==
    /\ vaultFile = <<>>
    /\ auditFile = <<>>
    /\ clock = 0
    /\ vaultIo = "ok"
    /\ auditIo = TRUE
    /\ steps = 0
    /\ lastOp = NoOp
    /\ prevVault = <<>>
    /\ prevAudit = <<>>
    /\ plain = <<>>
    /\ master = <<>>
    /\ cipher = <<>>
    /\ decrypted = <<>>
    /\ cryptoPc = "idle"
    /\ call = [fn |-> "none"]
    /\ result = <<>>
    /\ procs = <<>>
    /\ session = NoSession

---------------------------------------------------------------------------
(* crypto.py on its own: a secret is encrypted, then decrypted *)

\* " ", "0", "A", "Z", "a", "z", "|", "~"
SecretChars == {32, 48, 65, 90, 97, 122, 124, 126}

\* every printable ASCII character alone, and the strings over SecretChars
SecretInputs ==
    {<<c>> : c \in 32..126}
        \cup UNION {[1..k -> SecretChars] : k \in 0..MaxSecretLen}

\* "A" .. "Z" (one for each of the 26 keys) and the master passwords
CryptoPassphrases == {<<c>> : c \in 65..90} \cup Passphrases

Encrypt ==
    /\ cryptoPc = "idle"
    /\ \E plain_password \in SecretInputs, master_password \in CryptoPassphrases :
          /\ plain' = plain_password
          /\ master' = master_password
          /\ cipher' = encrypt_password(plain_password, master_password)
    /\ cryptoPc' = "encrypted"
    /\ UNCHANGED decrypted
    /\ UNCHANGED vaultVars
    /\ UNCHANGED callVars

Decrypt ==
    /\ cryptoPc = "encrypted"
    /\ decrypted' = decrypt_password(cipher, master)
    /\ cryptoPc' = "decrypted"
    /\ UNCHANGED <<plain, master, cipher>>
    /\ UNCHANGED vaultVars
    /\ UNCHANGED callVars

NextCrypto == Encrypt \/ Decrypt

SpecCrypto == Init /\ [][NextCrypto]_vars

Next == Create \/ ViewAll \/ Search \/ Update \/ Delete \/ Tick \/ VaultFault \/ AuditFault

Spec == Init /\ [][Next]_vars

---------------------------------------------------------------------------
(* The properties. lastOp is the last menu choice that ran, prevVault and
   prevAudit are the two files as that call found them. *)

Entries == read_all_entries(vaultFile)
PrevEntries == read_all_entries(prevVault)

\* two names that differ at most in the case of their ASCII letters
SameName(a, b) ==
    /\ Len(a) = Len(b)
    /\ \A i \in 1..Len(a) :
          \/ a[i] = b[i]
          \/ (a[i] \in 65..90 /\ b[i] = a[i] + 32)
          \/ (a[i] \in 97..122 /\ b[i] = a[i] - 32)

\* the id typed at the prompt, and where the store had it before the call
TypedId == strip(lastOp.entry_id)
NamedEntries == {i \in 1..Len(PrevEntries) : PrevEntries[i].id = TypedId}

\* an answer that is more than white space
Supplied(text) == \E i \in 1..Len(text) : ~IsSpace(text[i])

\* a title of which sanitization leaves nothing
BlankTitle(text) == \A i \in 1..Len(text) : text[i] \in {PIPE, CR} \/ IsSpace(text[i])

\* the records the call appended to the ledger
AppendedRecords ==
    LET old == read_all_logs(prevAudit)
        new == read_all_logs(auditFile)
    IN  SubSeq(new, Len(old) + 1, Len(new))

ActionOf(kind) ==
    CASE kind = "create" -> CREATE
      [] kind = "view" -> READ
      [] kind = "update" -> UPDATE
      [] kind = "delete" -> DELETE
      [] kind = "search" -> SEARCH
      [] OTHER -> <<>>

\* C1: for every printable-ASCII secret and every passphrase, decrypting with
\* the same passphrase what encrypt_password produced gives the secret back
C1_RoundTrip == cryptoPc = "decrypted" => decrypted = plain

\* "zZ" under key 25, which takes both letters around the alphabet
C1_Witness ==
    /\ cryptoPc = "decrypted"
    /\ plain = <<122, 90>>
    /\ derive_key_from_password(master) = 25
    /\ cipher # plain
    /\ decrypted = plain

\* the update or delete named an id no entry has, or one of another owner
UnknownOrForeignId ==
    /\ lastOp.kind \in {"update", "delete"}
    /\ LET old == PrevEntries
       IN  \A i \in 1..Len(old) :
              old[i].id = TypedId => ~SameName(old[i].username, lastOp.username)

\* C2: an update or a delete that names an id no entry has, or the id of an
\* entry whose owner differs (ignoring case) from the caller, returns False
\* and leaves the vault file exactly as it was
C2_RejectsUnknownOrForeignId ==
    UnknownOrForeignId => lastOp.ret = "False" /\ vaultFile = prevVault

C2_Witness ==
    /\ UnknownOrForeignId
    /\ lastOp.kind = "update"
    /\ NamedEntries # {}
    /\ lastOp.ret = "False"
    /\ vaultFile # <<>>

\* C3: the ids of the stored entries are pairwise distinct, and no call
\* changes the id of an entry: the ids that stay keep their owner, their
\* creation time and their order, and the only new id is the one a create adds
\* at the end
C3_IdsDistinctAndFixed ==
    LET old == PrevEntries
        new == Entries
    IN  /\ \A i, j \in 1..Len(new) : new[i].id = new[j].id => i = j
        /\ \A i \in 1..Len(new), j \in 1..Len(old) :
              new[i].id = old[j].id =>
                  /\ new[i].username = old[j].username
                  /\ new[i].created_at = old[j].created_at
                  /\ \A k \in 1..Len(new), l \in 1..Len(old) :
                        new[k].id = old[l].id /\ i < k => j < l
        /\ \A i \in 1..Len(new) :
              (\A j \in 1..Len(old) : new[i].id # old[j].id) =>
                  /\ lastOp.kind = "create"
                  /\ lastOp.ret = "True"
                  /\ i = Len(new)
                  /\ Len(new) = Len(old) + 1

C3_Witness ==
    /\ lastOp.kind = "create"
    /\ lastOp.ret = "True"
    /\ Len(PrevEntries) = 1
    /\ Len(Entries) = 2
    /\ Entries[1].id # Entries[2].id

\* C4: the listing of a user is exactly the entries whose owner equals the
\* user's name ignoring case, in the order of the file
C4_ListsExactlyOwnEntries ==
    lastOp.kind = "view" =>
        LET old == PrevEntries
            owned == {i \in 1..Len(old) : SameName(old[i].username, lastOp.username)}
        IN  /\ Len(lastOp.shown) = Cardinality(owned)
            /\ \A k \in 1..Len(lastOp.shown) :
                  \E i \in owned :
                      /\ Cardinality({j \in owned : j <= i}) = k
                      /\ lastOp.shown[k] = old[i]

C4_Witness ==
    /\ lastOp.kind = "view"
    /\ Len(PrevEntries) = 2
    /\ ~SameName(PrevEntries[1].username, lastOp.username)
    /\ lastOp.shown = <<PrevEntries[2]>>
    /\ lastOp.shown[1].username # lastOp.username

\* C5: a successful update changes, in the one entry it names, only the
\* fields for which a new value was typed; the entry's id, owner, creation
\* time and place in the file, and every other entry, stay as they were
C5_UpdateKeepsTheRest ==
    lastOp.kind = "update" /\ lastOp.ret = "True" =>
        LET old == PrevEntries
            new == Entries
            named == NamedEntries
        IN  /\ Cardinality(named) = 1
            /\ Len(new) = Len(old)
            /\ \A i \in 1..Len(old) :
                  IF i \in named
                  THEN /\ new[i].id = old[i].id
                       /\ new[i].username = old[i].username
                       /\ new[i].created_at = old[i].created_at
                       /\ ~Supplied(lastOp.title) => new[i].title = old[i].title
                       /\ ~Supplied(lastOp.account) => new[i].account = old[i].account
                       /\ ~Supplied(lastOp.password) => new[i].password = old[i].password
                       /\ ~Supplied(lastOp.notes) => new[i].notes = old[i].notes
                  ELSE new[i] = old[i]

C5_Witness ==
    /\ lastOp.kind = "update"
    /\ lastOp.ret = "True"
    /\ Len(PrevEntries) = 2
    /\ Supplied(lastOp.title)
    /\ ~Supplied(lastOp.account)
    /\ \E i \in NamedEntries : /\ Entries[i].title # PrevEntries[i].title
                               /\ Entries[i].account # <<>>

\* C6: a create whose title is empty after sanitization, or whose secret is
\* empty, returns False, writes nothing to the vault file and appends no
\* audit record
C6_CreateNeedsTitleAndSecret ==
    lastOp.kind = "create" /\ (BlankTitle(lastOp.title) \/ ~Supplied(lastOp.password)) =>
        /\ lastOp.ret = "False"
        /\ vaultFile = prevVault
        /\ auditFile = prevAudit

C6_Witness ==
    /\ lastOp.kind = "create"
    /\ lastOp.title = <<PIPE>>
    /\ lastOp.ret = "False"
    /\ prevVault # <<>>
    /\ prevAudit # <<>>

TypedSecrets == {strip(t.password) : t \in CreateInputs \cup UpdateInputs} \ {<<>>}

\* the titles and keywords typed, as the handlers pass them on
LoggedTexts ==
    {sanitize_input(strip(t.title)) : t \in CreateInputs \cup UpdateInputs}
        \cup {strip(k) : k \in KeywordInputs}

AuditDetails ==
    {prefix \o text :
        prefix \in {CreatedEntry, ViewedEntry, UpdatedEntry, DeletedEntry, SearchedFor},
        text \in LoggedTexts}

\* C8: neither file ever holds a typed secret or the passphrase in the
\* clear: the password field written is encrypt_password(secret, passphrase),
\* and the details of an audit record are a fixed prefix and a title or a
\* search keyword
C8_NoPlaintextOnDisk ==
    /\ \A s \in TypedSecrets \cup Passphrases :
          ~Contains(vaultFile, s) /\ ~Contains(auditFile, s)
    /\ lastOp.kind = "create" /\ lastOp.ret = "True" =>
          LET new == Entries
          IN  new[Len(new)].password
                  = encrypt_password(strip(lastOp.password), lastOp.master_password)
    /\ lastOp.kind = "update" /\ lastOp.ret = "True" /\ Supplied(lastOp.password) =>
          LET new == Entries
          IN  \A i \in NamedEntries :
                  new[i].password
                      = encrypt_password(strip(lastOp.password), lastOp.master_password)
    /\ LET appended == AppendedRecords
       IN  \A i \in 1..Len(appended) : appended[i].details \in AuditDetails

C8_Witness ==
    /\ lastOp.kind = "update"
    /\ lastOp.ret = "True"
    /\ Supplied(lastOp.password)
    /\ Len(AppendedRecords) = 1
    /\ \E i \in NamedEntries : Entries[i].password # PrevEntries[i].password

\* the call did what was asked of it: the store was rewritten, the listing
\* was displayed, the search was run
Completed ==
    \/ lastOp.kind \in {"create", "update", "delete"} /\ lastOp.ret = "True"
    \/ lastOp.kind = "view" /\ lastOp.shown # <<>>
    \/ lastOp.kind = "search" /\ lastOp.stage # "empty_keyword"

\* C9: every completed create, read, update, delete and search is followed by
\* an audit record with the matching action and the caller's username (stated
\* for the calls during which the ledger could be appended to)
C9_EveryOperationLogged ==
    Completed /\ lastOp.audit_io =>
        LET appended == AppendedRecords
        IN  \E i \in 1..Len(appended) :
                /\ appended[i].action = ActionOf(lastOp.kind)
                /\ appended[i].username = lastOp.username

\* the call met one of the conditions on which the handlers return early
StopsEarly ==
    \/ lastOp.kind = "create"
          /\ (BlankTitle(lastOp.title) \/ ~Supplied(lastOp.password))
    \/ UnknownOrForeignId
    \/ lastOp.kind \in {"update", "delete"} /\ ~lastOp.confirmed
    \/ lastOp.vault_io # "ok"

\* C10: a create, update or delete appends its audit record only when the
\* rewrite of the vault file succeeded, and a call that stops early (failed
\* validation, unknown id, another owner's entry, declined confirmation,
\* failed save) appends none
C10_AuditOnlyAfterSave ==
    lastOp.kind \in {"create", "update", "delete"} =>
        /\ StopsEarly => auditFile = prevAudit
        /\ auditFile # prevAudit =>
              /\ lastOp.ret = "True"
              /\ lastOp.vault_io = "ok"
              /\ LET appended == AppendedRecords
                 IN  /\ Len(appended) = 1
                     /\ appended[1].action = ActionOf(lastOp.kind)

C10_Witness ==
    /\ lastOp.kind = "delete"
    /\ lastOp.confirmed
    /\ lastOp.vault_io = "write_failed"
    /\ lastOp.ret = "False"
    /\ prevVault # <<>>
    /\ vaultFile = <<>>
    /\ auditFile = prevAudit
    /\ auditFile # <<>>

\* C11: the ledger is append-only: the file as a call found it is a prefix
\* of the file it leaves, and the records read before the call are, unchanged
\* and in the same order, the first records read after it
C11_LedgerAppendOnly ==
    /\ Len(prevAudit) <= Len(auditFile)
    /\ SubSeq(auditFile, 1, Len(prevAudit)) = prevAudit
    /\ auditFile # prevAudit =>
          LET old == read_all_logs(prevAudit)
              new == read_all_logs(auditFile)
          IN  /\ Len(old) < Len(new)
              /\ SubSeq(new, 1, Len(old)) = old

C11_Witness ==
    /\ lastOp.kind = "delete"
    /\ lastOp.ret = "True"
    /\ Len(read_all_logs(prevAudit)) = 2
    /\ Len(read_all_logs(auditFile)) = 3
    /\ read_all_logs(auditFile)[1].action = CREATE

\* the create, update or delete got as far as rewriting the vault file
Rewrote ==
    /\ lastOp.kind \in {"create", "update", "delete"}
    /\ ~StopsEarly

\* C12: when the audit append fails after a create, update or delete has
\* rewritten the vault file, the call still returns True (log_activity does
\* not raise) and the change is in the vault file; the ledger is as it was
C12_AuditFailureDoesNotBlock ==
    Rewrote /\ ~lastOp.audit_io =>
        LET old == PrevEntries
            new == Entries
        IN  /\ lastOp.ret = "True"
            /\ auditFile = prevAudit
            /\ lastOp.kind = "create" =>
                  /\ Len(new) = Len(old) + 1
                  /\ new[Len(new)].id = lastOp.entry_id
                  /\ new[Len(new)].username = lastOp.username
            /\ lastOp.kind = "delete" =>
                  /\ Len(new) = Len(old) - 1
                  /\ \A i \in 1..Len(new) : new[i].id # TypedId
            /\ lastOp.kind = "update" =>
                  /\ Len(new) = Len(old)
                  /\ \A i \in NamedEntries :
                        /\ Supplied(lastOp.account) =>
                              new[i].account = sanitize_input(strip(lastOp.account))
                        /\ Supplied(lastOp.title) =>
                              new[i].title = sanitize_input(strip(lastOp.title))

C12_Witness ==
    /\ Rewrote
    /\ ~lastOp.audit_io
    /\ lastOp.kind = "update"
    /\ Supplied(lastOp.account)
    /\ lastOp.ret = "True"
    /\ vaultFile # prevVault
    /\ auditFile = prevAudit
    /\ auditFile # <<>>

---------------------------------------------------------------------------
(* audit.py on its own: log_activity, then read_all_logs *)

MaxLogs == 2     \* calls of log_activity in one run

LogCall(username, action, details) ==
    [fn |-> "log_activity", username |-> username, action |-> action,
     details |-> details]

\* the arguments of log_activity: ("bob","READ","x y"), ("Bob","A",""),
\* ("","",""), ("eve","SEARCH","g: é"), ("eve","DELETE","é"),
\* ("bob","CREATE","a b"), and arguments the sanitizer changes:
\* ("bob","A","a|b"), (" bob","A","x"), ("bob","A","x" LF "y"),
\* ("bob","A","x" CR), ("b|","A|","x "), ("bob","A"," ")
LogInputs ==
    {LogCall(<<98, 111, 98>>, READ, <<120, 32, 121>>),
     LogCall(<<66, 111, 98>>, <<65>>, <<>>),
     LogCall(<<>>, <<>>, <<>>),
     LogCall(<<101, 118, 101>>, SEARCH, <<103, 58, 32, 233>>),
     LogCall(<<101, 118, 101>>, DELETE, <<233>>),
     LogCall(<<98, 111, 98>>, CREATE, <<97, 32, 98>>),
     LogCall(<<98, 111, 98>>, <<65>>, <<97, 124, 98>>),
     LogCall(<<32, 98, 111, 98>>, <<65>>, <<120>>),
     LogCall(<<98, 111, 98>>, <<65>>, <<120, 10, 121>>),
     LogCall(<<98, 111, 98>>, <<65>>, <<120, 13>>),
     LogCall(<<98, 124>>, <<65, 124>>, <<120, 32>>),
     LogCall(<<98, 111, 98>>, <<65>>, <<32>>)}

\* one call of log_activity, and the ledger read back right after it
LogActivity ==
    /\ steps < MaxLogs
    /\ \E c \in LogInputs :
          /\ call' = c
          /\ auditFile' = log_activity(auditFile, clock, c.username, c.action,
                                       c.details, auditIo)
    /\ result' = read_all_logs(auditFile')
    /\ prevAudit' = auditFile
    /\ steps' = steps + 1
    /\ UNCHANGED <<vaultFile, clock, vaultIo, auditIo, lastOp, prevVault>>
    /\ UNCHANGED <<procs, session>>
    /\ UNCHANGED cryptoVars

NextLog == LogActivity

SpecLog == Init /\ [][NextLog]_vars

\* "YYYY-MM-DD HH:MM:SS"
IsTimestamp(s) ==
    /\ Len(s) = 19
    /\ \A i \in 1..19 :
          IF i \in {5, 8} THEN s[i] = 45
          ELSE IF i = 11 THEN s[i] = 32
          ELSE IF i \in {14, 17} THEN s[i] = 58
          ELSE s[i] \in 48..57

\* a text the sanitizer has nothing to remove from: no delimiter, no line
\* break, no white space at either end
Clean(text) ==
    /\ \A i \in 1..Len(text) : text[i] \notin {PIPE, NL, CR}
    /\ text # <<>> => ~IsSpace(text[1]) /\ ~IsSpace(text[Len(text)])

\* the last record read back is the one passed to log_activity
ReadBackIsWhatWasPassed ==
    /\ result # <<>>
    /\ result[Len(result)].username = call.username
    /\ result[Len(result)].action = call.action
    /\ result[Len(result)].details = call.details
    /\ IsTimestamp(result[Len(result)].timestamp)

\* C13 as stated: for any username, action and details passed to
\* log_activity, the last record read back right afterwards has that same
\* username, action and details, and a timestamp YYYY-MM-DD HH:MM:SS
C13_AnyFieldsReadBack == call.fn = "log_activity" => ReadBackIsWhatWasPassed

\* C13, amended: the same for every username, action and details free of
\* "|", of line breaks and of white space at either end; other texts are read
\* back as sanitize_input leaves them
C13_CleanFieldsReadBack ==
    call.fn = "log_activity" =>
        /\ Clean(call.username) /\ Clean(call.action) /\ Clean(call.details) =>
              ReadBackIsWhatWasPassed
        /\ result # <<>>
        /\ result[Len(result)].username = sanitize_input(call.username)
        /\ result[Len(result)].action = sanitize_input(call.action)
        /\ result[Len(result)].details = sanitize_input(call.details)
        /\ IsTimestamp(result[Len(result)].timestamp)

C13_Witness ==
    /\ call = LogCall(<<101, 118, 101>>, SEARCH, <<103, 58, 32, 233>>)
    /\ Len(result) = 2
    /\ ReadBackIsWhatWasPassed
    /\ result[1].details # call.details

---------------------------------------------------------------------------
(* utils.py on its own: generate_entry_id *)

MaxIds == 3          \* length of existing_ids
MaxIdNumber == 5     \* the ids in it are VAULT001 .. VAULT005

\* every list of at most MaxIds ids, in any order, repeats included
IdLists ==
    UNION {[1..k -> {entry_id_of(n) : n \in 1..MaxIdNumber}] : k \in 0..MaxIds}

GenerateId ==
    /\ call.fn = "none"
    /\ \E existing_ids \in IdLists :
          /\ call' = [fn |-> "generate_entry_id", existing_ids |-> existing_ids]
          /\ result' = [id |-> generate_entry_id(existing_ids, 1),
                        probes |-> generate_entry_id_probes(existing_ids, 1)]
    /\ UNCHANGED vaultVars
    /\ UNCHANGED cryptoVars

NextIds == GenerateId

SpecIds == Init /\ [][NextIds]_vars

\* "VAULT" and the number in at least three digits
IdNumbered(n) ==
    VAULT \o <<48 + ((n \div 100) % 10), 48 + ((n \div 10) % 10), 48 + (n % 10)>>

\* C14: generate_entry_id(existing_ids) is VAULT+NNN for the smallest N >= 1
\* whose id is not in existing_ids, found in at most len(existing_ids)+1
\* probes
C14_LowestUnusedId ==
    call.fn = "generate_entry_id" =>
        LET used == {call.existing_ids[i] : i \in 1..Len(call.existing_ids)}
        IN  /\ \E n \in 1..(Len(call.existing_ids) + 1) :
                  /\ result.id = IdNumbered(n)
                  /\ result.id \notin used
                  /\ \A m \in 1..(n - 1) : IdNumbered(m) \in used
            /\ result.probes <= Len(call.existing_ids) + 1

\* VAULT001, VAULT002, VAULT005 give VAULT003
C14_Witness ==
    /\ call.fn = "generate_entry_id"
    /\ call.existing_ids = <<IdNumbered(1), IdNumbered(2), IdNumbered(5)>>
    /\ result.id = IdNumbered(3)
    /\ result.probes = 3

---------------------------------------------------------------------------
(* vault.py on its own: search_entries over a given vault file *)

MaxSearched == 3     \* entries in the vault file searched

\* an entry as create_entry stores it, its password field "eEg="
Stored(n, username, title, account) ==
    new_entry(entry_id_of(n), username, title, account, <<101, 69, 103, 61>>, <<>>, 0)

\* bob's "Gmail"/"u1" and "Facebook"/"fb", Bob's "Amazon"/"u3" and
\* "Bank"/"me@MAIL", eve's "Gmail"/"u5"
SearchedEntries ==
    {Stored(1, <<98, 111, 98>>, <<71, 109, 97, 105, 108>>, <<117, 49>>),
     Stored(2, <<98, 111, 98>>, <<70, 97, 99, 101, 98, 111, 111, 107>>, <<102, 98>>),
     Stored(3, <<66, 111, 98>>, <<65, 109, 97, 122, 111, 110>>, <<117, 51>>),
     Stored(4, <<66, 111, 98>>, <<66, 97, 110, 107>>, <<109, 101, 64, 77, 65, 73, 76>>),
     Stored(5, <<101, 118, 101>>, <<71, 109, 97, 105, 108>>, <<117, 53>>)}

\* "mail", "A", ""
SearchKeywords == {<<109, 97, 105, 108>>, <<65>>, <<>>}

SearchEntries ==
    /\ call.fn = "none"
    /\ \E entries \in UNION {[1..k -> SearchedEntries] : k \in 0..MaxSearched},
          username \in {<<66, 111, 98>>, <<101, 118, 101>>},
          keyword \in SearchKeywords :
          /\ call' = [fn |-> "search_entries", entries |-> entries,
                      username |-> username, keyword |-> keyword]
          /\ result' = search_entries(format_vault_lines(entries), username, keyword)
    /\ UNCHANGED vaultVars
    /\ UNCHANGED cryptoVars

NextSearch == SearchEntries

SpecSearch == Init /\ [][NextSearch]_vars

\* the same character, or the same ASCII letter in the other case
SameLetter(a, b) ==
    \/ a = b
    \/ (a \in 65..90 /\ b = a + 32)
    \/ (a \in 97..122 /\ b = a - 32)

\* keyword occurs in text, ignoring the case of letters
Occurs(keyword, text) ==
    \E at \in 0..(Len(text) - Len(keyword)) :
        \A k \in 1..Len(keyword) : SameLetter(text[at + k], keyword[k])

\* C15: search_entries(owner, keyword) returns exactly the entries of owner
\* (the name compared ignoring case) whose title or account contains keyword
\* ignoring case, in the order of the file, and no entry of another owner
C15_SearchReturnsOwnMatches ==
    call.fn = "search_entries" =>
        LET all == call.entries
            hits == {i \in 1..Len(all) :
                        /\ SameName(all[i].username, call.username)
                        /\ \/ Occurs(call.keyword, all[i].title)
                           \/ Occurs(call.keyword, all[i].account)}
        IN  /\ Len(result) = Cardinality(hits)
            /\ \A k \in 1..Len(result) :
                  \E i \in hits :
                      /\ Cardinality({j \in hits : j <= i}) = k
                      /\ result[k] = all[i]

\* "mail" over Gmail, Facebook, Amazon returns only Gmail
C15_Witness ==
    /\ call.fn = "search_entries"
    /\ call.keyword = <<109, 97, 105, 108>>
    /\ Len(call.entries) = 3
    /\ call.entries[1].title = <<71, 109, 97, 105, 108>>
    /\ call.entries[2].title = <<70, 97, 99, 101, 98, 111, 111, 107>>
    /\ call.entries[3].title = <<65, 109, 97, 122, 111, 110>>
    /\ call.entries[1].username # call.username
    /\ result = <<call.entries[1]>>

C15_AccountWitness ==
    /\ call.fn = "search_entries"
    /\ call.keyword = <<109, 97, 105, 108>>
    /\ Len(call.entries) = 3
    /\ call.entries[1].title = <<66, 97, 110, 107>>
    /\ call.entries[2].username = <<101, 118, 101>>
    /\ call.entries[2].title = <<71, 109, 97, 105, 108>>
    /\ call.entries[3].title = <<71, 109, 97, 105, 108>>
    /\ result = <<call.entries[1], call.entries[3]>>

---------------------------------------------------------------------------
(* vault.py on its own: bubble_sort_entries and sort_entries_builtin *)

\* a < b for two str: by code point, a proper prefix first
RECURSIVE str_lt(_, _)
str_lt(a, b) ==
    IF b = <<>> THEN FALSE
    ELSE IF a = <<>> THEN TRUE
    ELSE IF Head(a) # Head(b) THEN Head(a) < Head(b)
    ELSE str_lt(Tail(a), Tail(b))

\* arr[j][by].lower(): every field is a str
sort_key(entry, by) == lower(entry[by])

should_swap_ascending_only(val1, val2, reverse) == str_lt(val2, val1)

should_swap_on_equal(val1, val2, reverse) ==
    IF ~reverse THEN ~str_lt(val1, val2) ELSE ~str_lt(val2, val1)

\* val1 > val2 if not reverse else val1 < val2
should_swap(val1, val2, reverse) ==
    IF ~reverse THEN str_lt(val2, val1) ELSE str_lt(val1, val2)

\* the inner loop, for j in range(0, n - i - 1), from position j (counted from
\* 1) to position last
RECURSIVE bubble_pass(_, _, _, _, _, _)
bubble_pass(arr, j, last, by, reverse, swapped) ==
    IF j > last THEN [arr |-> arr, swapped |-> swapped]
    ELSE IF should_swap(sort_key(arr[j], by), sort_key(arr[j + 1], by), reverse)
    THEN bubble_pass([arr EXCEPT ![j] = arr[j + 1], ![j + 1] = arr[j]],
                     j + 1, last, by, reverse, TRUE)
    ELSE bubble_pass(arr, j + 1, last, by, reverse, swapped)

\* the outer loop, for i in range(n), left when a pass swapped nothing
RECURSIVE bubble_passes(_, _, _, _)
bubble_passes(arr, i, by, reverse) ==
    IF i >= Len(arr) THEN arr
    ELSE LET pass == bubble_pass(arr, 1, Len(arr) - i - 1, by, reverse, FALSE)
         IN  IF ~pass.swapped THEN pass.arr
             ELSE bubble_passes(pass.arr, i + 1, by, reverse)

bubble_sort_entries(entries, by, reverse) == bubble_passes(entries, 0, by, reverse)

Reverse(s) == [i \in 1..Len(s) |-> s[Len(s) + 1 - i]]

\* one element put into a sorted list, behind the elements that do not
\* compare greater
insort(sorted, entry, by) ==
    LET behind == {i \in 1..Len(sorted) :
                      ~str_lt(sort_key(entry, by), sort_key(sorted[i], by))}
        at == Cardinality(behind)
    IN  SubSeq(sorted, 1, at) \o <<entry>> \o SubSeq(sorted, at + 1, Len(sorted))

\* sorted(entries, key=...): ascending and stable
RECURSIVE stable_sorted(_, _)
stable_sorted(entries, by) ==
    IF entries = <<>> THEN <<>>
    ELSE insort(stable_sorted(SubSeq(entries, 1, Len(entries) - 1), by),
                entries[Len(entries)], by)

\* sorted(entries, key=..., reverse=reverse): with reverse the list is
\* reversed, sorted ascending and reversed again
sort_entries_builtin(entries, by, reverse) ==
    IF reverse THEN Reverse(stable_sorted(Reverse(entries), by))
    ELSE stable_sorted(entries, by)

MaxSorted == 3       \* entries in the list sorted

\* an entry of bob created at second now
Sortable(n, title, now) ==
    new_entry(entry_id_of(n), <<98, 111, 98>>, title, <<>>, <<101, 69, 103, 61>>, <<>>, now)

\* "Gmail" (created at second 1), "Facebook" (0), "Amazon" (1), "gmail" (0)
\* and "AMAZON" (0)
SortedEntries ==
    {Sortable(1, <<71, 109, 97, 105, 108>>, 1),
     Sortable(2, <<70, 97, 99, 101, 98, 111, 111, 107>>, 0),
     Sortable(3, <<65, 109, 97, 122, 111, 110>>, 1),
     Sortable(4, <<103, 109, 97, 105, 108>>, 0),
     Sortable(5, <<65, 77, 65, 90, 79, 78>>, 0)}

SortEntries ==
    /\ call.fn = "none"
    /\ \E entries \in UNION {[1..k -> SortedEntries] : k \in 0..MaxSorted},
          by \in {"title", "created_at"},
          reverse \in BOOLEAN,
          fn \in {"bubble_sort_entries", "sort_entries_builtin"} :
          /\ call' = [fn |-> fn, entries |-> entries, by |-> by, reverse |-> reverse]
          /\ result' = IF fn = "bubble_sort_entries"
                       THEN bubble_sort_entries(entries, by, reverse)
                       ELSE sort_entries_builtin(entries, by, reverse)
    /\ UNCHANGED vaultVars
    /\ UNCHANGED cryptoVars

NextSort == SortEntries

SpecSort == Init /\ [][NextSort]_vars

\* the sort key of an entry: the field with its ASCII capitals made small
KeyOf(entry, by) ==
    [i \in 1..Len(entry[by]) |->
        IF entry[by][i] \in 65..90 THEN entry[by][i] + 32 ELSE entry[by][i]]

\* a comes before b in dictionary order of code points
KeyBefore(a, b) ==
    \/ Len(a) < Len(b) /\ \A q \in 1..Len(a) : a[q] = b[q]
    \/ \E p \in 1..Len(a) :
          /\ p <= Len(b)
          /\ a[p] < b[p]
          /\ \A q \in 1..(p - 1) : a[q] = b[q]

Occurrences(s, e) == Cardinality({i \in 1..Len(s) : s[i] = e})

\* C16: bubble_sort_entries and sort_entries_builtin return a permutation of
\* the entries given, ordered by the key ignoring case: never decreasing when
\* ascending, never increasing when descending
C16_SortedPermutation ==
    call.fn \in {"bubble_sort_entries", "sort_entries_builtin"} =>
        /\ Len(result) = Len(call.entries)
        /\ \A e \in SortedEntries :
              Occurrences(result, e) = Occurrences(call.entries, e)
        /\ \A i \in 1..(Len(result) - 1) :
              IF call.reverse
              THEN ~KeyBefore(KeyOf(result[i], call.by), KeyOf(result[i + 1], call.by))
              ELSE ~KeyBefore(KeyOf(result[i + 1], call.by), KeyOf(result[i], call.by))

\* Gmail, Facebook, Amazon by title ascending, by the bubble sort: Amazon,
\* Facebook, Gmail
C16_Witness ==
    /\ call.fn = "bubble_sort_entries"
    /\ call.by = "title"
    /\ ~call.reverse
    /\ Len(call.entries) = 3
    /\ call.entries[1].title = <<71, 109, 97, 105, 108>>
    /\ call.entries[2].title = <<70, 97, 99, 101, 98, 111, 111, 107>>
    /\ call.entries[3].title = <<65, 109, 97, 122, 111, 110>>
    /\ result = <<call.entries[3], call.entries[2], call.entries[1]>>

\* C17: both sorts are stable, ascending and descending: the entries whose
\* keys are equal ignoring case come out in the order they went in
C17_SortStable ==
    call.fn \in {"bubble_sort_entries", "sort_entries_builtin"} =>
        \A e \in SortedEntries :
            LET same_key(x) == KeyOf(x, call.by) = KeyOf(e, call.by)
            IN  SelectSeq(result, same_key) = SelectSeq(call.entries, same_key)

\* gmail, Amazon, Gmail by title descending: gmail stays before Gmail
C17_Witness ==
    /\ call.fn = "sort_entries_builtin"
    /\ call.by = "title"
    /\ call.reverse
    /\ Len(call.entries) = 3
    /\ call.entries[1].title = <<103, 109, 97, 105, 108>>
    /\ call.entries[2].title = <<65, 109, 97, 122, 111, 110>>
    /\ call.entries[3].title = <<71, 109, 97, 105, 108>>
    /\ result = <<call.entries[1], call.entries[3], call.entries[2]>>

---------------------------------------------------------------------------
(* crypto.py on its own: caesar_encrypt, then caesar_encrypt with -shift *)

MaxCaesarLen == 2    \* length of the text shifted

\* "A", "Z", "a", "z", "1", " ", and beyond ASCII "É", "é" and "×"
CaesarChars == {65, 90, 97, 122, 49, 32, 201, 233, 215}

CaesarTexts == UNION {[1..k -> CaesarChars] : k \in 0..MaxCaesarLen}

CaesarShifts == {-27, -1, 0, 3, 25, 26, 29}

CaesarShift ==
    /\ call.fn = "none"
    /\ \E text \in CaesarTexts, shift \in CaesarShifts :
          /\ call' = [fn |-> "caesar_encrypt", text |-> text, shift |-> shift]
          /\ result' = [encrypted |-> caesar_encrypt(text, shift),
                        back |-> caesar_encrypt(caesar_encrypt(text, shift), 0 - shift)]
    /\ UNCHANGED vaultVars
    /\ UNCHANGED cryptoVars

NextCaesar == CaesarShift

SpecCaesar == Init /\ [][NextCaesar]_vars

\* uppercase letter, lowercase letter or no letter, as str.isalpha and
\* str.isupper tell
ClassOf(c) ==
    IF ~IsAlpha(c) THEN "other" ELSE IF IsUpper(c) THEN "upper" ELSE "lower"

\* C18: caesar_encrypt keeps the length of the text and, at every position,
\* the class (uppercase letter, lowercase letter, no letter) of the character,
\* and caesar_encrypt(caesar_encrypt(t, k), -k) = t for every integer k
C18_ShiftKeepsShapeAndInverts ==
    call.fn = "caesar_encrypt" =>
        /\ Len(result.encrypted) = Len(call.text)
        /\ \A i \in 1..Len(call.text) :
              ClassOf(result.encrypted[i]) = ClassOf(call.text[i])
        /\ result.back = call.text

\* C19: caesar_encrypt changes ASCII letters only: every other character,
\* the letters beyond ASCII included, is at the same position in the output
C19_OnlyAsciiLettersChange ==
    call.fn = "caesar_encrypt" =>
        /\ Len(result.encrypted) = Len(call.text)
        /\ \A i \in 1..Len(call.text) :
              call.text[i] \notin (65..90) \cup (97..122) =>
                  result.encrypted[i] = call.text[i]

---------------------------------------------------------------------------
(* crypto.py on its own: encrypt_password under one master password,
   decrypt_password under another *)

\* "A" (key 13) and "Passw0rd" (key 8)
OtherPassphrases == {<<65>>} \cup Passphrases

DecryptWithOther ==
    /\ call.fn = "none"
    /\ \E plain_password \in SecretInputs, p1 \in CryptoPassphrases,
          p2 \in OtherPassphrases :
          /\ call' = [fn |-> "decrypt_password", plain_password |-> plain_password,
                      p1 |-> p1, p2 |-> p2]
          /\ result' = decrypt_password(encrypt_password(plain_password, p1), p2)
    /\ UNCHANGED vaultVars
    /\ UNCHANGED cryptoVars

NextWrongKey == DecryptWithOther

SpecWrongKey == Init /\ [][NextWrongKey]_vars

\* the sum of the code points, modulo 26
KeyOfPassphrase(p) ==
    LET total[i \in 0..Len(p)] == IF i = 0 THEN 0 ELSE total[i - 1] + p[i]
    IN  total[Len(p)] % 26

\* C20: for passphrases p1, p2 with different keys and a secret s with at
\* least one ASCII letter, decrypt_password(encrypt_password(s, p1), p2) is
\* not empty (the error sentinel), differs from s and has the length of s
C20_WrongPassphraseGivesGarbage ==
    /\ call.fn = "decrypt_password"
    /\ KeyOfPassphrase(call.p1) # KeyOfPassphrase(call.p2)
    /\ \E i \in 1..Len(call.plain_password) :
          call.plain_password[i] \in (65..90) \cup (97..122)
    => /\ result # <<>>
       /\ result # call.plain_password
       /\ Len(result) = Len(call.plain_password)

\* "z~" encrypted under key 25 ("M"), decrypted under key 13 ("A"): "l~"
C20_Witness ==
    /\ call.fn = "decrypt_password"
    /\ call.plain_password = <<122, 126>>
    /\ call.p1 = <<77>>
    /\ call.p2 = <<65>>
    /\ result = <<108, 126>>

---------------------------------------------------------------------------
(* crypto.py on its own: base64_decode and decrypt_password of a stored
   string *)

MaxEncodedLen == 5   \* length of the string decoded

\* "Q", "/", "w", "=" and, outside the base64 alphabet, "!"
EncodedChars == {81, 47, 119, PAD, 33}

EncodedTexts == UNION {[1..k -> EncodedChars] : k \in 0..MaxEncodedLen}

DecodeLayer ==
    /\ call.fn = "none"
    /\ \E encoded_text \in EncodedTexts, master_password \in OtherPassphrases :
          /\ call' = [fn |-> "base64_decode", encoded_text |-> encoded_text,
                      master_password |-> master_password]
          /\ result' = [decoded |-> base64_decode(encoded_text),
                        decrypted |-> decrypt_password(encoded_text, master_password)]
    /\ UNCHANGED vaultVars
    /\ UNCHANGED cryptoVars

NextDecode == DecodeLayer

SpecDecode == Init /\ [][NextDecode]_vars

\* the string is what b64encode writes for some bytes
Canonical(encoded_text) ==
    /\ b64decode(encoded_text).ok
    /\ b64encode(b64decode(encoded_text).bytes) = encoded_text

\* C21: base64_decode returns "" for every malformed string (one that is no
\* canonical encoding, or holds a character outside the base64 alphabet),
\* and decrypt_password returns "" whenever base64_decode did
C21_MalformedDecodesToEmpty ==
    call.fn = "base64_decode" =>
        /\ ~Canonical(call.encoded_text) => result.decoded = <<>>
        /\ result.decoded = <<>> => result.decrypted = <<>>

---------------------------------------------------------------------------
(* vault.py: create, update and delete on a vault that starts empty, with
   delimiters and line ends typed into every field *)

MaxStoreSteps == 3   \* menu choices in one run

\* "bob"
StoreUsernames == {<<98, 111, 98>>}

\* what is typed at the four prompts of create_entry:
\* "G","x","pZ",""; " f|","a|b","k7","x\ny"; "a\rb","|","|","n\r";
\* "|" (no title is left)
StoreCreateInputs ==
    {Typed(<<71>>, <<120>>, <<112, 90>>, <<>>),
     Typed(<<32, 102, 124>>, <<97, 124, 98>>, <<107, 55>>, <<120, 10, 121>>),
     Typed(<<97, 13, 98>>, <<124>>, <<124>>, <<110, 13>>),
     Typed(<<124>>, <<>>, <<>>, <<>>)}

\* what is typed at the four prompts of update_entry:
\* "|","","",""; "t|u","y\nz","|","\r"; and the answers of a declined update
StoreUpdateInputs ==
    {Typed(<<124>>, <<>>, <<>>, <<>>),
     Typed(<<116, 124, 117>>, <<121, 10, 122>>, <<124>>, <<13>>),
     DeclinedUpdate}

StoreCreate ==
    /\ steps < MaxStoreSteps
    /\ \E username \in StoreUsernames, master_password \in Passphrases :
          create_entry_typing(username, master_password, StoreCreateInputs)

StoreUpdate ==
    /\ steps < MaxStoreSteps
    /\ \E username \in StoreUsernames, master_password \in Passphrases :
          update_entry_typing(username, master_password, StoreUpdateInputs)

StoreDelete ==
    /\ steps < MaxStoreSteps
    /\ \E username \in StoreUsernames : delete_entry(username)

NextStore == StoreCreate \/ StoreUpdate \/ StoreDelete

SpecStore == Init /\ [][NextStore]_vars

\* the number of "|" in a line
Delimiters(line) == Cardinality({i \in 1..Len(line) : line[i] = PIPE})

\* C22: after any sequence of creates and updates every line of the vault file
\* is one stored entry: it ends in "\n", holds no "\r" and no other "\n", and
\* has exactly six "|", so it splits into exactly 7 fields; a create adds one
\* line and an update adds none
C22_NoDelimiterInFields ==
    LET lines == file_lines(vaultFile)
        before == file_lines(prevVault)
    IN  /\ Len(Entries) = Len(lines)
        /\ \A k \in 1..Len(lines) :
              /\ Delimiters(lines[k]) = 6
              /\ Len(split(strip(lines[k]), PIPE)) = 7
              /\ lines[k][Len(lines[k])] = NL
              /\ \A i \in 1..(Len(lines[k]) - 1) : lines[k][i] \notin {NL, CR}
        /\ lastOp.kind = "create" /\ lastOp.ret = "True" =>
              Len(lines) = Len(before) + 1
        /\ lastOp.kind = "update" /\ lastOp.ret = "True" =>
              Len(lines) = Len(before)

\* an entry created with "|" and "\n" typed into its fields, then updated with
\* "t|u", "y\nz", "|" and "\r"
C22_Witness ==
    /\ lastOp.kind = "update"
    /\ lastOp.ret = "True"
    /\ lastOp.title = <<116, 124, 117>>
    /\ lastOp.account = <<121, 10, 122>>
    /\ Len(PrevEntries) = 2
    /\ PrevEntries[2].notes = <<120, 32, 121>>
    /\ \E i \in 1..2 :
          /\ Entries[i].title = <<116, 117>>
          /\ Entries[i].account = <<121, 32, 122>>

---------------------------------------------------------------------------
(* vault.py on its own: read_all_entries over a vault file that may be
   missing or hold lines that are no entries *)

MaxReadLines == 3    \* lines in the file read

\* a line of the file: its text without the line end, and the entry it is
\* (<<>> when it is none)
ReadLine(text, entry) == [text |-> text, entry |-> entry]

EntryLine(entry) ==
    ReadLine(SubSeq(format_vault_line(entry), 1, Len(format_vault_line(entry)) - 1),
             <<entry>>)

\* two entries (the first without notes, the second without account), and four
\* lines that are none: "VAULT009|bob|G" (3 fields), a line of 8 fields, an
\* empty line and " "
ReadLines ==
    {EntryLine(Stored(1, <<98, 111, 98>>, <<71>>, <<120>>)),
     EntryLine([Stored(2, <<101, 118, 101>>, <<102>>, <<>>) EXCEPT !.notes = <<110>>]),
     ReadLine(<<86, 65, 85, 76, 84, 48, 48, 57, 124, 98, 111, 98, 124, 71>>, <<>>),
     ReadLine(<<49, 124, 50, 124, 51, 124, 52, 124, 53, 124, 54, 124, 55, 124, 56>>, <<>>),
     ReadLine(<<>>, <<>>),
     ReadLine(<<SPACE>>, <<>>)}

\* the line ends a file may hold: "\n", "\r\n"
LineEnds == {<<NL>>, <<CR, NL>>}

RECURSIVE FileOf(_, _)
FileOf(lines, line_end) ==
    IF lines = <<>> THEN <<>>
    ELSE Head(lines).text \o line_end \o FileOf(Tail(lines), line_end)

ReadAllEntries ==
    /\ call.fn = "none"
    /\ \E exists \in BOOLEAN, k \in 0..MaxReadLines, line_end \in LineEnds :
       \E lines \in [1..k -> ReadLines] :
          /\ ~exists => k = 0
          /\ call' = [fn |-> "read_all_entries", exists |-> exists, lines |-> lines,
                      file |-> FileOf(lines, line_end)]
          /\ result' = read_all_entries_at(exists, FileOf(lines, line_end))
    /\ UNCHANGED vaultVars
    /\ UNCHANGED cryptoVars

NextRead == ReadAllEntries

SpecRead == Init /\ [][NextRead]_vars

\* the entries among the lines, in the order of the lines
RECURSIVE EntriesAmong(_)
EntriesAmong(lines) ==
    IF lines = <<>> THEN <<>> ELSE Head(lines).entry \o EntriesAmong(Tail(lines))

\* C23: read_all_entries returns the empty list when the vault file is
\* missing; it skips a line that does not split into exactly 7 fields and
\* returns every entry before and after it, in file order
C23_ReadSkipsInvalidLines ==
    call.fn = "read_all_entries" =>
        /\ ~call.exists => result = <<>>
        /\ call.exists => result = EntriesAmong(call.lines)

\* a line of 3 fields between two entries
C23_Witness ==
    /\ call.fn = "read_all_entries"
    /\ call.exists
    /\ Len(call.lines) = 3
    /\ call.lines[1].entry # <<>>
    /\ call.lines[2].text = <<86, 65, 85, 76, 84, 48, 48, 57, 124, 98, 111, 98, 124, 71>>
    /\ call.lines[3].entry # <<>>
    /\ result = call.lines[1].entry \o call.lines[3].entry

\* vault.txt is not there
C23_MissingWitness ==
    /\ call.fn = "read_all_entries"
    /\ ~call.exists
    /\ result = <<>>

---------------------------------------------------------------------------
(* audit.py on its own: get_recent_logs over a ledger that log_activity
   wrote *)

MaxRecent == 3       \* the count asked of get_recent_logs

GetRecentLogs ==
    /\ call.fn # "get_recent_logs"
    /\ \E count \in 0..MaxRecent :
          /\ call' = [fn |-> "get_recent_logs", count |-> count]
          /\ result' = get_recent_logs(auditFile, count)
    /\ UNCHANGED vaultVars
    /\ UNCHANGED cryptoVars

NextRecent == LogActivity \/ GetRecentLogs

SpecRecent == Init /\ [][NextRecent]_vars

Min(a, b) == IF a < b THEN a ELSE b

\* C24: get_recent_logs(n) returns the last min(n, number of records)
\* records of the ledger in file order, for every n >= 0; with n = 0 it
\* returns no record
C24_RecentIsLastN ==
    call.fn = "get_recent_logs" =>
        LET all_logs == read_all_logs(auditFile)
            kept == Min(call.count, Len(all_logs))
        IN  /\ Len(result) = kept
            /\ \A i \in 1..Len(result) :
                  Len(all_logs) - kept + i \in 1..Len(all_logs)
                  /\ result[i] = all_logs[Len(all_logs) - kept + i]

---------------------------------------------------------------------------
(* crypto.py on its own: generate_strong_password, one step per call of the
   function; a password that fails the test makes the function call itself *)

MaxPasswordLength == 4   \* the length asked for
RecursionLimit == 3      \* nested calls the interpreter allows before RecursionError

\* "a", "A", "0", "!": one character of each pool
PoolChars == {97, 65, 48, 33}

GenerateCall(length, depth, password) ==
    [fn |-> "generate_strong_password", length |-> length, depth |-> depth,
     pc |-> IF is_strong(password) THEN "returned" ELSE "retrying"]

\* the call from outside
GenerateStrongPassword ==
    /\ call.fn = "none"
    /\ \E length \in 0..MaxPasswordLength :
       \E password \in [1..length -> PoolChars] :
          /\ call' = GenerateCall(length, 1, password)
          /\ result' = password
    /\ UNCHANGED vaultVars
    /\ UNCHANGED cryptoVars

\* return generate_strong_password(length): the call of the function by
\* itself, or RecursionError when the interpreter allows no deeper call
Regenerate ==
    /\ call.fn = "generate_strong_password"
    /\ call.pc = "retrying"
    /\ IF call.depth >= RecursionLimit
       THEN /\ call' = [call EXCEPT !.pc = "raised"]
            /\ result' = <<>>
       ELSE \E password \in [1..call.length -> PoolChars] :
               /\ call' = GenerateCall(call.length, call.depth + 1, password)
               /\ result' = password
    /\ UNCHANGED vaultVars
    /\ UNCHANGED cryptoVars

NextGenerate == GenerateStrongPassword \/ Regenerate

\* a call that was made runs on
SpecGenerate == Init /\ [][NextGenerate]_vars /\ WF_vars(Regenerate)

\* C25: generate_strong_password(length) stops retrying and returns a
\* password for every length, lengths below 4 included
C25_GenerationStops ==
    (call.fn = "generate_strong_password")
        ~> (call.fn = "generate_strong_password" /\ call.pc = "returned")

---------------------------------------------------------------------------
(* Two runs of the program on one vault.txt.  Each run is a dashboard loop;
   a handler reaches the file several times (get_existing_ids or
   get_user_entries, get_entry_by_id, read_all_entries, save_all_entries),
   and between two of these the other run may take steps.  No lock is taken
   anywhere in vault.py. *)

MaxRaceOps == 2      \* menu choices of each run

\* the two runs are logged in as "bob" and as "Bob" (the same account)
RaceUsernames == <<(<<98, 111, 98>>), (<<66, 111, 98>>)>>

\* create_entry: run 1 types "G","x","pZ",""; run 2 types "f","","k7","n"
RaceCreateInputs ==
    <<Typed(<<71>>, <<120>>, <<112, 90>>, <<>>),
      Typed(<<102>>, <<>>, <<107, 55>>, <<110>>)>>

\* update_entry: run 1 types a new title "t", run 2 a new account "y"
RaceUpdateInputs ==
    <<Typed(<<116>>, <<>>, <<>>, <<>>),
      Typed(<<>>, <<121>>, <<>>, <<>>)>>

\* the menu choices made: run 1 creates and updates, run 2 creates and deletes
RaceChoices == <<{"create", "update"}, {"create", "delete"}>>

\* a run at the menu
AtMenu(username) ==
    [username |-> username, pc |-> "menu", kind |-> "none", entry_id |-> <<>>,
     entry |-> <<>>, all_entries |-> <<>>, ret |-> "None", ops |-> 0,
     read_at |-> 0, wrote_at |-> 0, nwrites |-> 0]

\* the writes to vault.txt so far, by both runs
Writes == procs[1].nwrites + procs[2].nwrites

Step(p, proc) ==
    /\ procs' = [procs EXCEPT ![p] = proc]
    /\ UNCHANGED <<vaultFile, auditFile, clock, vaultIo, auditIo, steps, lastOp,
                   prevVault, prevAudit, session>>
    /\ UNCHANGED cryptoVars
    /\ UNCHANGED callVars

\* a handler returns to the menu
Returned(proc, ret) == [proc EXCEPT !.pc = "menu", !.ret = ret, !.ops = @ + 1]

RaceStart ==
    /\ procs = <<>>
    /\ procs' = <<AtMenu(RaceUsernames[1]), AtMenu(RaceUsernames[2])>>
    /\ UNCHANGED <<vaultFile, auditFile, clock, vaultIo, auditIo, steps, lastOp,
                   prevVault, prevAudit, session>>
    /\ UNCHANGED cryptoVars
    /\ UNCHANGED callVars

\* the menu choice: create_entry asks its four questions, update_entry and
\* delete_entry go to the file first
Choose(p) ==
    /\ procs # <<>>
    /\ procs[p].pc = "menu"
    /\ procs[p].ops < MaxRaceOps
    /\ \E kind \in RaceChoices[p] :
          Step(p, [procs[p] EXCEPT !.kind = kind, !.ret = "None", !.entry_id = <<>>,
                                   !.entry = <<>>, !.all_entries = <<>>,
                                   !.pc = IF kind = "create" THEN "existing_ids"
                                          ELSE "user_entries"])

\* create_entry: existing_ids = get_existing_ids(), entry_id and new_entry
ReadIds(p, master_password) ==
    /\ procs # <<>>
    /\ procs[p].pc = "existing_ids"
    /\ LET typed == RaceCreateInputs[p]
           existing_ids == get_existing_ids(vaultFile)
           entry_id == generate_entry_id(existing_ids, 1)
           entry == new_entry(entry_id, procs[p].username,
                              sanitize_input(strip(typed.title)),
                              sanitize_input(strip(typed.account)),
                              encrypt_password(strip(typed.password), master_password),
                              sanitize_input(strip(typed.notes)), clock)
       IN  Step(p, [procs[p] EXCEPT !.entry_id = entry_id, !.entry = <<entry>>,
                                    !.pc = "read_all"])

\* update_entry, delete_entry: entries = get_user_entries(username), and the
\* id typed at the prompt
ReadUserEntries(p) ==
    /\ procs # <<>>
    /\ procs[p].pc = "user_entries"
    /\ IF get_user_entries(vaultFile, procs[p].username) = <<>>
       THEN Step(p, Returned(procs[p], "False"))
       ELSE \E entry_id_in \in IdInputs :
               Step(p, [procs[p] EXCEPT !.entry_id = strip(entry_id_in),
                                        !.pc = "entry_by_id"])

\* update_entry, delete_entry: entry = get_entry_by_id(entry_id), the check
\* of the owner, the prompts and the confirmation
ReadEntryById(p, master_password) ==
    /\ procs # <<>>
    /\ procs[p].pc = "entry_by_id"
    /\ LET found == get_entry_by_id(vaultFile, procs[p].entry_id)
           typed == RaceUpdateInputs[p]
       IN  IF found = <<>> \/ ~is_owner(found[1], procs[p].username)
           THEN Step(p, Returned(procs[p], "False"))
           ELSE Step(p, [procs[p] EXCEPT
                    !.entry = IF procs[p].kind = "update"
                              THEN <<apply_update(found[1], strip(typed.title),
                                                  strip(typed.account),
                                                  strip(typed.password),
                                                  strip(typed.notes), master_password)>>
                              ELSE found,
                    !.pc = "read_all"])

\* all_entries = read_all_entries(), and the change made to the list
ReadAll(p) ==
    /\ procs # <<>>
    /\ procs[p].pc = "read_all"
    /\ LET all_entries == read_all_entries(vaultFile)
           changed == IF procs[p].kind = "create"
                      THEN Append(all_entries, procs[p].entry[1])
                      ELSE IF procs[p].kind = "update"
                      THEN replace_entry(all_entries, procs[p].entry_id, procs[p].entry[1])
                      ELSE remove_entry(all_entries, procs[p].entry_id)
       IN  Step(p, [procs[p] EXCEPT !.all_entries = changed, !.read_at = Writes,
                                    !.pc = "save"])

\* save_all_entries(all_entries), the record in the ledger and the return
SaveAndLog(p) ==
    /\ procs # <<>>
    /\ procs[p].pc = "save"
    /\ vaultFile' = save_all_entries(vaultFile, procs[p].all_entries, "ok")
    /\ auditFile' =
          IF procs[p].kind = "create"
          THEN log_create_entry(auditFile, clock, procs[p].username,
                                procs[p].entry[1].title, TRUE)
          ELSE IF procs[p].kind = "update"
          THEN log_update_entry(auditFile, clock, procs[p].username,
                                procs[p].entry[1].title, TRUE)
          ELSE log_delete_entry(auditFile, clock, procs[p].username,
                                procs[p].entry[1].title, TRUE)
    /\ procs' = [procs EXCEPT ![p] =
                    [Returned(procs[p], "True") EXCEPT !.wrote_at = Writes + 1,
                                                       !.nwrites = @ + 1]]
    /\ UNCHANGED <<clock, vaultIo, auditIo, steps, lastOp, prevVault, prevAudit,
                   session>>
    /\ UNCHANGED cryptoVars
    /\ UNCHANGED callVars

Run(p) ==
    \/ Choose(p)
    \/ \E master_password \in Passphrases : ReadIds(p, master_password)
    \/ ReadUserEntries(p)
    \/ \E master_password \in Passphrases : ReadEntryById(p, master_password)
    \/ ReadAll(p)
    \/ SaveAndLog(p)

NextRace == RaceStart \/ Run(1) \/ Run(2)

SpecRace == Init /\ [][NextRace]_vars

\* the run whose save was the last write to vault.txt, back at its menu
LastWriter(q) ==
    /\ procs[q].pc = "menu"
    /\ procs[q].ret = "True"
    /\ procs[q].wrote_at = Writes

\* the last call of run p was a create that returned True, and the entry it
\* made is not in the file
CreateLost(p) ==
    /\ procs[p].pc = "menu"
    /\ procs[p].kind = "create"
    /\ procs[p].ret = "True"
    /\ procs[p].entry[1] \notin Range(Entries)

\* C26: with no lock a save overwrites the whole file with the list of the
\* run that saves: after the last write the file holds exactly that run's
\* list, so what another run wrote between this run's read_all_entries and
\* its save is gone although both calls returned True
C26_LastSaveIsWholeFile ==
    procs # <<>> =>
        \A q \in 1..2 :
            LastWriter(q) =>
                /\ Entries = procs[q].all_entries
                /\ \A p \in (1..2) \ {q} :
                      /\ procs[p].pc = "menu"
                      /\ procs[p].kind = "create"
                      /\ procs[p].ret = "True"
                      /\ procs[q].read_at < procs[p].wrote_at
                      /\ procs[p].entry[1] \notin Range(procs[q].all_entries)
                      => CreateLost(p)

\* both runs created an entry and both calls returned True; run 2 read the
\* file before run 1 saved and saved after it, so run 1's entry is gone; and
\* two entries of the file have the same id, from two creates that both read
\* the ids before either saved
C26_Witness ==
    /\ procs # <<>>
    /\ LastWriter(2)
    /\ procs[2].kind = "create"
    /\ procs[2].read_at < procs[1].wrote_at
    /\ procs[1].wrote_at < procs[2].wrote_at
    /\ CreateLost(1)
    /\ \E i, j \in 1..Len(Entries) : i # j /\ Entries[i].id = Entries[j].id

\* an update and a delete: run 1 saved a new title for VAULT001 and run 2,
\* which had read the file before that, deleted VAULT002: the new title is gone
C26_UpdateLostWitness ==
    /\ procs # <<>>
    /\ LastWriter(2)
    /\ procs[2].kind = "delete"
    /\ procs[1].pc = "menu"
    /\ procs[1].kind = "update"
    /\ procs[1].ret = "True"
    /\ procs[2].read_at < procs[1].wrote_at
    /\ procs[1].wrote_at < procs[2].wrote_at
    /\ procs[1].entry[1] \notin Range(Entries)
    /\ procs[1].entry_id # procs[2].entry_id

---------------------------------------------------------------------------
(* vault.py on its own: format_vault_line and parse_vault_line, and
   save_all_entries followed by read_all_entries *)

MaxRecords == 3      \* entries in the list saved

\* bob's "G"/"x" with id VAULT001
Plain == Stored(1, <<98, 111, 98>>, <<71>>, <<120>>)

\* an entry with all 7 fields empty
Blank ==
    [id |-> <<>>, username |-> <<>>, title |-> <<>>, account |-> <<>>,
     password |-> <<>>, notes |-> <<>>, created_at |-> <<>>]

\* entries whose fields keep to the format: Plain; title " G " and notes "é";
\* empty account; Blank.  And entries that do not: title "a|b", notes
\* "x\ny", title "a\rb", id " V" and created_at "t "
RecordEntries ==
    {Plain,
     [Plain EXCEPT !.title = <<32, 71, 32>>, !.notes = <<233>>],
     [Plain EXCEPT !.account = <<>>],
     Blank,
     [Plain EXCEPT !.title = <<97, 124, 98>>],
     [Plain EXCEPT !.notes = <<120, 10, 121>>],
     [Plain EXCEPT !.title = <<97, 13, 98>>],
     [Plain EXCEPT !.id = <<32, 86>>],
     [Plain EXCEPT !.created_at = <<116, 32>>]}

SaveAndRead ==
    /\ call.fn = "none"
    /\ \E k \in 0..MaxRecords :
       \E entries \in [1..k -> RecordEntries] :
          /\ call' = [fn |-> "save_all_entries", entries |-> entries]
          /\ result' = [parsed |-> [i \in 1..k |->
                                       parse_vault_line(format_vault_line(entries[i]))],
                        read |-> read_all_entries(save_all_entries(<<>>, entries, "ok"))]
    /\ UNCHANGED vaultVars
    /\ UNCHANGED cryptoVars

NextRecord == SaveAndRead

SpecRecord == Init /\ [][NextRecord]_vars

Fields == {"id", "username", "title", "account", "password", "notes", "created_at"}

\* no field holds "|", "\n" or "\r", and the line of the entry neither
\* begins nor ends with whitespace
KeepsToFormat(entry) ==
    /\ \A f \in Fields : \A i \in 1..Len(entry[f]) : entry[f][i] \notin {PIPE, NL, CR}
    /\ entry.id # <<>> => ~IsSpace(entry.id[1])
    /\ entry.created_at # <<>> => ~IsSpace(entry.created_at[Len(entry.created_at)])

\* C27: for every entry whose fields hold no "|" and no line end and whose
\* line has no whitespace at its ends, parse_vault_line(format_vault_line(e))
\* is e, and a list of such entries saved and read back is the same list in the
\* same order
C27_RecordRoundTrip ==
    call.fn = "save_all_entries" =>
        /\ \A i \in 1..Len(call.entries) :
              KeepsToFormat(call.entries[i]) => result.parsed[i] = <<call.entries[i]>>
        /\ (\A i \in 1..Len(call.entries) : KeepsToFormat(call.entries[i]))
              => result.read = call.entries

\* the blank entry, the entry with title " G " and the plain one
C27_Witness ==
    /\ call.fn = "save_all_entries"
    /\ Len(call.entries) = 3
    /\ call.entries[1] = Blank
    /\ call.entries[2].title = <<32, 71, 32>>
    /\ call.entries[3] = Plain
    /\ result.read = call.entries
    /\ result.parsed[1] = <<Blank>>

---------------------------------------------------------------------------
(* vault.py: what create, update and delete keep true of every entry *)

\* C28: after any sequence of creates, updates and deletes from an empty
\* vault, every stored entry has a title that is not empty and a password
\* field that decodes to a string that is not empty
C28_TitleAndSecretNeverEmpty ==
    \A i \in 1..Len(Entries) :
        /\ Entries[i].title # <<>>
        /\ base64_decode(Entries[i].password) # <<>>

---------------------------------------------------------------------------
(* vault.py: create, update and delete on a vault.txt that is there when the
   program starts, with a line that is no entry in it (a line cut short, a
   line of another format): the lines parse_vault_line returns None for *)

\* "VAULT009|bob|G": a line of 3 fields
ShortLine == <<86, 65, 85, 76, 84, 48, 48, 57, 124, 98, 111, 98, 124, 71, NL>>

\* the files found: empty; bob's "G" and eve's "f"; bob's "G" and the short
\* line; the short line, bob's "G" and eve's "f"
StoredFiles ==
    LET bobs == format_vault_line(Stored(1, <<98, 111, 98>>, <<71>>, <<120>>))
        eves == format_vault_line(Stored(2, <<101, 118, 101>>, <<102>>, <<>>))
    IN  {<<>>, bobs \o eves, bobs \o ShortLine, ShortLine \o bobs \o eves}

InitStored ==
    /\ vaultFile \in StoredFiles
    /\ auditFile = <<>>
    /\ clock = 0
    /\ vaultIo = "ok"
    /\ auditIo = TRUE
    /\ steps = 0
    /\ lastOp = NoOp
    /\ prevVault = vaultFile
    /\ prevAudit = <<>>
    /\ plain = <<>>
    /\ master = <<>>
    /\ cipher = <<>>
    /\ decrypted = <<>>
    /\ cryptoPc = "idle"
    /\ call = [fn |-> "none"]
    /\ result = <<>>
    /\ procs = <<>>
    /\ session = NoSession

NextStored == StoreCreate \/ StoreUpdate \/ StoreDelete

SpecStored == InitStored /\ [][NextStored]_vars

\* the line is the entry the call named at its prompt
IsTarget(line) ==
    /\ lastOp.kind \in {"update", "delete"}
    /\ parse_vault_line(line) # <<>>
    /\ parse_vault_line(line)[1].id = TypedId

\* C29: a create, update or delete that returned True leaves in the file
\* every line that was there before and is not the entry it names, the lines
\* that are no entries included
C29_OtherLinesKept ==
    lastOp.kind \in {"create", "update", "delete"} /\ lastOp.ret = "True" =>
        LET before == file_lines(prevVault)
            after == file_lines(vaultFile)
        IN  \A k \in 1..Len(before) :
                ~IsTarget(before[k]) => \E j \in 1..Len(after) : after[j] = before[k]

---------------------------------------------------------------------------
(* main.py: main_menu, login, the master password asked before the
   dashboard, the dashboard's create, view and update, and logout *)

MaxLogins == 2        \* logins in one run
MaxSessionSteps == 3  \* menu choices handled in the dashboards of one run

LOGIN == <<76, 79, 71, 73, 78>>
LOGOUT == <<76, 79, 71, 79, 85, 84>>
\* "User logged in successfully", "User logged out"
LoggedIn ==
    <<85, 115, 101, 114, 32, 108, 111, 103, 103, 101, 100, 32, 105, 110, 32,
      115, 117, 99, 99, 101, 115, 115, 102, 117, 108, 108, 121>>
LoggedOut ==
    <<85, 115, 101, 114, 32, 108, 111, 103, 103, 101, 100, 32, 111, 117, 116>>

log_login(file, now, username, io_ok) ==
    log_activity(file, now, username, LOGIN, LoggedIn, io_ok)

log_logout(file, now, username, io_ok) ==
    log_activity(file, now, username, LOGOUT, LoggedOut, io_ok)

\* typed at "Username": "bob", " Bob" and "eve" (not registered)
LoginUsernames == {<<98, 111, 98>>, <<32, 66, 111, 98>>, <<101, 118, 101>>}

\* typed at a "Master Password" prompt: "Passw0rd", "Passw0rd " and "A"
TypedPasswords ==
    {<<80, 97, 115, 115, 119, 48, 114, 100>>,
     <<80, 97, 115, 115, 119, 48, 114, 100, 32>>,
     <<65>>}

\* "G","x","pZ",""
SessionCreateInputs == {Typed(<<71>>, <<120>>, <<112, 90>>, <<>>)}

\* a new password "k7"
SessionUpdateInputs == {Typed(<<>>, <<>>, <<107, 55>>, <<>>)}

SessionStep(new_session, new_audit) ==
    /\ session' = new_session
    /\ auditFile' = new_audit
    /\ UNCHANGED <<vaultFile, clock, vaultIo, auditIo, steps, lastOp, prevVault,
                   prevAudit, procs>>
    /\ UNCHANGED cryptoVars
    /\ UNCHANGED callVars

\* main_menu choice 2: login() and, when it returns a username,
\* current_session.login(username)
login(username_in, password_in) ==
    LET username == sanitize_input(strip(username_in))
        user == get_user_by_username(session.users, username)
        password == strip(password_in)
    IN  IF user = <<>>
        THEN SessionStep([session EXCEPT !.logins = @ + 1], auditFile)
        ELSE IF verify_password(password, user[1].password_hash)
        THEN SessionStep([session EXCEPT !.pc = "logged_in", !.current_user = username,
                                         !.verified = password, !.logins = @ + 1],
                         log_login(auditFile, clock, username, auditIo))
        ELSE SessionStep([session EXCEPT !.logins = @ + 1], auditFile)

Login ==
    /\ session.pc = "main_menu"
    /\ session.logins < MaxLogins
    /\ \E username_in \in LoginUsernames, password_in \in TypedPasswords :
          login(username_in, password_in)

\* main: current_session.is_logged_in(), "Enter your master password", and
\* vault_dashboard(username, master_password) entered
EnterDashboard ==
    /\ session.pc = "logged_in"
    /\ \E password_in \in TypedPasswords :
          SessionStep([session EXCEPT !.pc = "dashboard",
                                      !.master_password = strip(password_in),
                                      !.entered_at = steps],
                      auditFile)

SessionCreate ==
    /\ session.pc = "dashboard"
    /\ steps < MaxSessionSteps
    /\ create_entry_typing(session.current_user, session.master_password,
                           SessionCreateInputs)

SessionView ==
    /\ session.pc = "dashboard"
    /\ steps < MaxSessionSteps
    /\ view_all_entries(session.current_user, session.master_password)

SessionUpdate ==
    /\ session.pc = "dashboard"
    /\ steps < MaxSessionSteps
    /\ update_entry_typing(session.current_user, session.master_password,
                           SessionUpdateInputs)

\* vault_dashboard choice 9, confirmed
Logout ==
    /\ session.pc = "dashboard"
    /\ SessionStep([session EXCEPT !.pc = "main_menu", !.current_user = <<>>,
                                   !.verified = <<>>, !.master_password = <<>>],
                   log_logout(auditFile, clock, session.current_user, auditIo))

NextSession ==
    Login \/ EnterDashboard \/ SessionCreate \/ SessionView \/ SessionUpdate \/ Logout

SpecSession == Init /\ [][NextSession]_vars

\* C30: in a logged-in session the master password handed to create, view
\* and update is the password login verified, so the entry a create stores is
\* encrypted under the key of that password
C30_DashboardUsesLoginPassword ==
    /\ session.pc = "dashboard"
    /\ steps > session.entered_at
    /\ lastOp.kind \in {"create", "update", "view"}
    => /\ lastOp.master_password = session.verified
       /\ lastOp.kind = "create" /\ lastOp.ret = "True" =>
             Entries[Len(Entries)].password
                 = encrypt_password(strip(lastOp.password), session.verified)

====
